---------------------------- MODULE Spec2Model ----------------------------
(***************************************************************************)
(* k9s-deck: the bubbletea model of main.go (Target Set, Selector/Release  *)
(* caches, item list), its Update handlers and the concurrent fetch cycle  *)
(* fetchDataCmd.                                                           *)
(*                                                                         *)
(* Go strings that the program computes on are sequences of one-character  *)
(* strings (<<"a","-","b">> is "a-b"); fixed texts such as "Active" stay   *)
(* TLA+ strings.  Go slices are (array, len) pairs into a heap of backing  *)
(* arrays, so that two slice headers can share one array as they do in Go. *)
(***************************************************************************)
EXTENDS Integers, Sequences, FiniteSets, TLC

(***************************************************************************)
(* Bounds of the model.                                                    *)
(***************************************************************************)
\* fetch cycles (fetchDataCmd closures) that may be in flight together
MaxCycles == 2
\* add requests that emit an addTargetMsg per run
MaxAdds == 1
\* remove requests that emit a removeTargetMsg per run
MaxRemoves == 2
\* fetch cycles started by tickMsg per run
MaxRefreshes == 1

(***************************************************************************)
(* Program constants.                                                      *)
(***************************************************************************)
MaxK8sNameLength == 253

(***************************************************************************)
(* Strings.                                                                *)
(***************************************************************************)
Chars == {" ", "-", "0", "A", "_", "a", "b", "c", "d", "e", "m", "o", "r", "v"}

\* the byte value of a character (ASCII)
Code(ch) ==
    CASE ch = " " -> 32 [] ch = "-" -> 45 [] ch = "0" -> 48 [] ch = "A" -> 65
      [] ch = "_" -> 95 [] ch = "a" -> 97 [] ch = "b" -> 98 [] ch = "c" -> 99
      [] ch = "d" -> 100 [] ch = "e" -> 101 [] ch = "m" -> 109
      [] ch = "o" -> 111 [] ch = "r" -> 114 [] ch = "v" -> 118

MinOf(x, y) == IF x < y THEN x ELSE y

\* Go's s < t on strings: bytewise lexicographic order
StrLess(s, t) ==
    \E k \in 0..MinOf(Len(s), Len(t)) :
        /\ \A i \in 1..k : s[i] = t[i]
        /\ \/ k = Len(s) /\ k < Len(t)
           \/ k < Len(s) /\ k < Len(t) /\ Code(s[k + 1]) < Code(t[k + 1])

Range(s) == {s[i] : i \in 1..Len(s)}

\* strings.TrimSpace
RECURSIVE TrimLeft(_)
TrimLeft(s) == IF s # <<>> /\ Head(s) = " " THEN TrimLeft(Tail(s)) ELSE s

RECURSIVE TrimRight(_)
TrimRight(s) ==
    IF s # <<>> /\ s[Len(s)] = " " THEN TrimRight(SubSeq(s, 1, Len(s) - 1)) ELSE s

TrimSpace(s) == TrimRight(TrimLeft(s))

\* strings.Fields: the maximal runs of non-space characters, in order
RECURSIVE FieldsFrom(_, _, _)
FieldsFrom(s, cur, acc) ==
    IF s = <<>>
    THEN IF cur = <<>> THEN acc ELSE Append(acc, cur)
    ELSE IF Head(s) = " "
         THEN FieldsFrom(Tail(s), <<>>, IF cur = <<>> THEN acc ELSE Append(acc, cur))
         ELSE FieldsFrom(Tail(s), Append(cur, Head(s)), acc)

Fields(s) == FieldsFrom(s, <<>>, <<>>)

\* isValidK8sName: non-empty, at most 253 bytes, no leading or trailing
\* hyphen, only a-z, 0-9 and '-'
isValidK8sName(name) ==
    /\ name # <<>>
    /\ Len(name) <= MaxK8sNameLength
    /\ name[1] # "-"
    /\ name[Len(name)] # "-"
    /\ \A i \in 1..Len(name) :
          \/ Code(name[i]) >= 97 /\ Code(name[i]) <= 122
          \/ Code(name[i]) >= 48 /\ Code(name[i]) <= 57
          \/ name[i] = "-"

\* the decimal digits and their values
DigitChars == <<"0", "1", "2", "3", "4", "5", "6", "7", "8", "9">>
IsDigit(ch) == \E i \in 1..10 : DigitChars[i] = ch
DigitVal(ch) == (CHOOSE i \in 1..10 : DigitChars[i] = ch) - 1

\* the value of a run of decimal digits
RECURSIVE NumVal(_)
NumVal(ds) ==
    IF ds = <<>> THEN 0
    ELSE NumVal(SubSeq(ds, 1, Len(ds) - 1)) * 10 + DigitVal(ds[Len(ds)])

\* the digits of a natural number (%d)
RECURSIVE Itoa(_)
Itoa(n) == IF n < 10 THEN <<DigitChars[n + 1]>> ELSE Itoa(n \div 10) \o <<DigitChars[(n % 10) + 1]>>

\* isPositiveInteger: after TrimSpace, not "" and not "0", and digits only
isPositiveInteger(s) ==
    LET t == TrimSpace(s)
    IN  /\ t # <<>>
        /\ t # <<"0">>
        /\ \A i \in 1..Len(t) : IsDigit(t[i])

\* the longest prefix of s made of the characters fmt accepts in a decimal
\* number: the digits and '_'
RECURSIVE NumberRun(_)
NumberRun(s) ==
    IF s # <<>> /\ (IsDigit(Head(s)) \/ Head(s) = "_")
    THEN <<Head(s)>> \o NumberRun(Tail(s))
    ELSE <<>>

\* fmt.Sscanf(s, "%d", &n): an optional sign, then the number run, which
\* strconv.ParseInt(tok, 10, 64) must accept (no '_', not empty); what follows
\* the run is left unread.  Runs are too short here to overflow an int.
Sscanf(s) ==
    LET signed == s # <<>> /\ Head(s) \in {"+", "-"}
        run == NumberRun(IF signed THEN Tail(s) ELSE s)
    IN  IF run = <<>> \/ "_" \in Range(run) THEN [err |-> TRUE, n |-> 0]
        ELSE [err |-> FALSE, n |-> IF Head(s) = "-" THEN 0 - NumVal(run) ELSE NumVal(run)]

(***************************************************************************)
(* The cluster: what GetDeployment and ListPods may answer.                *)
(***************************************************************************)
NameA == <<"a">>
NameB == <<"b">>
NameUpper == <<"A">>
NameC == <<"c">>

\* a pod as ListPods returns it
PodReady ==
    [name |-> <<"b", "-", "0">>, phase |-> "Running", deleting |-> FALSE,
     containers |-> <<[ready |-> TRUE, waiting |-> "", terminated |-> ""]>>]

\* a descriptor with no release annotation, no references and no match-labels
DescPlain ==
    [helmAnn |-> <<>>, helmLabel |-> <<>>, instLabel |-> <<>>,
     refs |-> <<>>, matchLabels |-> <<>>, podsErr |-> FALSE, pods |-> <<>>]

\* a descriptor of a released workload: the secret "e" is referenced twice
DescRich ==
    [helmAnn |-> <<"r">>, helmLabel |-> <<>>, instLabel |-> <<>>,
     refs |-> <<[sec |-> <<"e">>, cm |-> <<>>], [sec |-> <<"e">>, cm |-> <<"m">>]>>,
     matchLabels |-> (<<"o">> :> <<"0">>),
     podsErr |-> FALSE, pods |-> <<PodReady>>]

\* the replies of client.GetDeployment: an error, or a descriptor
ReplyFail == [err |-> TRUE, desc |-> DescPlain]
ReplyOk(desc) == [err |-> FALSE, desc |-> desc]

\* The clusters a run may face: which deployments exist and can be read.  A
\* name that is no deployment of the cluster ("A" can be none) is not found.
Clusters ==
    {(NameA :> ReplyOk(DescPlain)) @@ (NameB :> ReplyOk(DescRich)),
     (NameA :> ReplyOk(DescRich)) @@ (NameB :> ReplyFail),
     (NameA :> ReplyFail) @@ (NameB :> ReplyOk(DescRich))}

\* client.GetDeployment(ctx, Namespace, tName)
GetDeployment(k8s, tName) == IF tName \in DOMAIN k8s THEN k8s[tName] ELSE ReplyFail

(***************************************************************************)
(* Items.                                                                  *)
(***************************************************************************)
Item(type, name, status) == [Type |-> type, Name |-> name, Status |-> status]

\* fmt.Sprintf("=== %s ===", tName) and fmt.Sprintf("=== %s (Err) ===", tName)
HdrName(tName) == <<"=", "=", "=", " ">> \o tName \o <<" ", "=", "=", "=">>
HdrErrName(tName) ==
    <<"=", "=", "=", " ">> \o tName \o <<" ", "(", "E", "r", "r", ")", " ", "=", "=", "=">>

\* the envFrom / env / volumes scan: one SEC or CM item per name not seen yet
RECURSIVE ScanRefsUnseen(_, _, _, _)
ScanRefsUnseen(refs, seenSecrets, seenConfigMaps, acc) ==
    IF refs = <<>> THEN acc
    ELSE LET v == Head(refs)
             acc1 == IF v.sec # <<>> THEN Append(acc, Item("SEC", v.sec, "Ref")) ELSE acc
             acc2 == IF v.cm # <<>> THEN Append(acc1, Item("CM", v.cm, "Ref")) ELSE acc1
         IN  ScanRefsUnseen(Tail(refs), seenSecrets, seenConfigMaps, acc2)
RECURSIVE ScanRefs(_, _, _, _)
ScanRefs(refs, seenSecrets, seenConfigMaps, acc) ==
    IF refs = <<>> THEN acc
    ELSE LET v == Head(refs)
             addSec == v.sec # <<>> /\ v.sec \notin seenSecrets
             addCm == v.cm # <<>> /\ v.cm \notin seenConfigMaps
             acc1 == IF addSec THEN Append(acc, Item("SEC", v.sec, "Ref")) ELSE acc
             acc2 == IF addCm THEN Append(acc1, Item("CM", v.cm, "Ref")) ELSE acc1
         IN  ScanRefs(Tail(refs),
                      IF addSec THEN seenSecrets \cup {v.sec} ELSE seenSecrets,
                      IF addCm THEN seenConfigMaps \cup {v.cm} ELSE seenConfigMaps,
                      acc2)

\* sort.Strings(keys) over the match-label keys
RECURSIVE SortedKeys(_)
SortedKeys(ks) ==
    IF ks = {} THEN <<>>
    ELSE LET k == CHOOSE x \in ks : \A y \in ks : x = y \/ StrLess(x, y)
         IN  <<k>> \o SortedKeys(ks \ {k})

\* strings.Join(labels, ",") with labels[i] = k + "=" + v
RECURSIVE JoinLabels(_, _)
JoinLabels(keys, ml) ==
    IF keys = <<>> THEN <<>>
    ELSE Head(keys) \o <<"=">> \o ml[Head(keys)]
         \o (IF Len(keys) > 1 THEN <<",">> \o JoinLabels(Tail(keys), ml) ELSE <<>>)

NewSelector(desc) == JoinLabels(SortedKeys(DOMAIN desc.matchLabels), desc.matchLabels)

\* the sequences over S of length n at most
RECURSIVE SeqsUpTo(_, _)
SeqsUpTo(S, n) ==
    IF n = 0 THEN {<<>>}
    ELSE LET shorter == SeqsUpTo(S, n - 1)
         IN  shorter \cup {Append(q, x) : q \in {r \in shorter : Len(r) = n - 1}, x \in S}

\* the status of one pod
Count(cs, ready) == Cardinality({i \in 1..Len(cs) : cs[i].ready = ready})

FirstWaiting(cs) ==
    IF \E i \in 1..Len(cs) : cs[i].waiting # ""
    THEN cs[CHOOSE i \in 1..Len(cs) :
               cs[i].waiting # "" /\ \A k \in 1..(i - 1) : cs[k].waiting = ""].waiting
    ELSE ""

\* fmt.Sprintf("%s %d/%d", status, readyCount, totalCount): the text is the
\* concatenation of these five pieces
FullStatus(status, readyCount, totalCount) ==
    <<status, " ", Itoa(readyCount), "/", Itoa(totalCount)>>

\* the waiting reason looked at before the readiness
PodStatusReasonFirst(p) ==
    LET totalCount == Len(p.containers)
        readyCount == Count(p.containers, TRUE)
        isReady == totalCount > 0 /\ readyCount = totalCount
        status == IF p.deleting THEN "Terminating"
                  ELSE IF FirstWaiting(p.containers) # "" THEN FirstWaiting(p.containers)
                  ELSE IF isReady THEN "Running"
                  ELSE p.phase
    IN  FullStatus(status, readyCount, totalCount)

\* the readiness looked at before the deletion timestamp
PodStatusReadyFirst(p) ==
    LET totalCount == Len(p.containers)
        readyCount == Count(p.containers, TRUE)
        isReady == totalCount > 0 /\ readyCount = totalCount
        status == IF isReady THEN "Running"
                  ELSE IF p.deleting THEN "Terminating"
                  ELSE IF FirstWaiting(p.containers) # "" THEN FirstWaiting(p.containers)
                  ELSE p.phase
    IN  FullStatus(status, readyCount, totalCount)

PodStatus(p) ==
    LET totalCount == Len(p.containers)
        readyCount == Count(p.containers, TRUE)
        isReady == totalCount > 0 /\ readyCount = totalCount
        status == IF p.deleting THEN "Terminating"
                  ELSE IF isReady THEN "Running"
                  ELSE IF FirstWaiting(p.containers) # "" THEN FirstWaiting(p.containers)
                  ELSE p.phase
    IN  FullStatus(status, readyCount, totalCount)

PodItems(pods) == [i \in 1..Len(pods) |-> Item("POD", pods[i].name, PodStatus(pods[i]))]

\* the release name the task reads: the annotation meta.helm.sh/release-name
HelmName(desc) == desc.helmAnn

\* localItems of a task whose descriptor fetch succeeded
LocalItemsHelmFirst(tName, desc) ==
    (IF HelmName(desc) # <<>> THEN <<Item("HELM", HelmName(desc), "Release")>> ELSE <<>>)
    \o <<Item("HDR", HdrName(tName), ""), Item("DEP", tName, "Active")>>
    \o ScanRefs(desc.refs, {}, {}, <<>>)
    \o (IF NewSelector(desc) # <<>> /\ ~desc.podsErr THEN PodItems(desc.pods) ELSE <<>>)
LocalItems(tName, desc) ==
    <<Item("HDR", HdrName(tName), ""), Item("DEP", tName, "Active")>>
    \o (IF HelmName(desc) # <<>> THEN <<Item("HELM", HelmName(desc), "Release")>> ELSE <<>>)
    \o ScanRefs(desc.refs, {}, {}, <<>>)
    \o (IF NewSelector(desc) # <<>> /\ ~desc.podsErr THEN PodItems(desc.pods) ELSE <<>>)

\* the sub-list a task stores when the descriptor fetch failed
ErrorItems(tName) == <<Item("HDR", HdrErrName(tName), "")>>

\* what one task stores in targetItems for its reply
TaskItems(tName, reply) ==
    IF reply.err THEN ErrorItems(tName) ELSE LocalItems(tName, reply.desc)

\* getCurrentDeploymentName
getCurrentDeploymentName(its, cur) ==
    IF Len(its) = 0 \/ cur >= Len(its) THEN <<>>
    ELSE IF its[cur + 1].Type = "DEP" THEN its[cur + 1].Name
    ELSE IF \E i \in 1..(cur + 1) : its[i].Type = "DEP"
         THEN its[CHOOSE i \in 1..(cur + 1) :
                      its[i].Type = "DEP" /\ \A k \in (i + 1)..(cur + 1) : its[k].Type # "DEP"].Name
         ELSE <<>>

\* ensureCursorInBounds
ensureCursorKept(cur, itemCount) == cur
ensureCursorInBounds(cur, itemCount) ==
    IF itemCount = 0 THEN 0
    ELSE IF cur < 0 THEN 0
    ELSE IF cur >= itemCount THEN itemCount - 1
    ELSE cur

(***************************************************************************)
(* Go maps and slices.                                                     *)
(***************************************************************************)
EmptyMap == [x \in {} |-> <<>>]
Put(f, k, v) == [x \in (DOMAIN f) \cup {k} |-> IF x = k THEN v ELSE f[x]]
Delete(f, k) == [x \in (DOMAIN f) \ {k} |-> f[x]]
\* for k, v := range g { f[k] = v }
MergeMap(f, g) == [x \in (DOMAIN f) \cup (DOMAIN g) |-> IF x \in DOMAIN g THEN g[x] ELSE f[x]]

\* backing arrays: one for the model's slice, one per cycle, one being allocated
ArrIds == 1..(MaxCycles + 3)
NilSlice == [arr |-> 0, len |-> 0]

\* the capacity runtime.growslice gives a []string grown from oldCap to hold newLen
GrowCap(oldCap, newLen) == IF newLen > 2 * oldCap THEN newLen ELSE 2 * oldCap

\* the capacity of a slice built by k appends to a nil slice
RECURSIVE CapAfter(_)
CapAfter(k) ==
    IF k = 0 THEN 0
    ELSE LET c == CapAfter(k - 1) IN IF k - 1 < c THEN c ELSE GrowCap(c, k)

\* an array of capacity cap holding elems, the rest zero values ("")
MakeArray(elems, cap) == [i \in 1..cap |-> IF i <= Len(elems) THEN elems[i] ELSE <<>>]

VARIABLES
    Deployment,     \* the global Deployment (os.Args[3])
    cluster,        \* the cluster behind client: deployment name -> reply
    heap,           \* backing arrays of []string slices, by array id
    targets,        \* m.targets: a slice header [arr, len]
    selectors,      \* m.selectors
    helmReleases,   \* m.helmReleases
    items,          \* m.items
    cursor,         \* m.cursor
    err,            \* m.err
    msgs,           \* addTargetMsg / removeTargetMsg on their way to Update
    cycles,         \* the fetchDataCmd closures in flight, by slot
    budget,         \* how many more adds, removes and ticks this run explores
    removed,        \* history: names removed from the Target Set and not added since
    rt,             \* history: the add handled last, if nothing was handled since
    shownUnjoined,  \* history: m.items came from a cycle published before its join
    command,        \* the command entered at a prompt, its executeCommand closure
                    \* and what came of it
    calc,           \* a call of a function of the program on its own: its input,
                    \* its position and its locals
    manager,        \* a state.Manager or multi-container cache: its lock and its maps
    procs,          \* the goroutines that use the manager, by id
    ui              \* the view state of the model (m.partialKey, m.listOffset,
                    \* m.listHeight, m.activeTab, the details pane), the tick timers
                    \* and detail commands in flight, and the order the fetch
                    \* cycles in flight were started in

vars == <<Deployment, cluster, heap, targets, selectors, helmReleases, items, cursor, err,
          msgs, cycles, budget, removed, rt, shownUnjoined, command, calc, manager, procs,
          ui>>

\* what the event loop and the fetch cycles leave alone
apart == <<calc, manager, procs>>
\* what the handlers that do not touch the view state leave alone
aside == <<apart, ui>>

\* the elements a slice header denotes, read now
SliceOf(h, sl) == IF sl.arr = 0 THEN <<>> ELSE SubSeq(h[sl.arr], 1, sl.len)
CapOf(h, sl) == IF sl.arr = 0 THEN 0 ELSE Len(h[sl.arr])
Targets == SliceOf(heap, targets)

NoErr == <<>>

\* a text made by fmt.Errorf / fmt.Sprintf: the format, its %s argument (a
\* string the user typed) and its %v argument (the error of a remote call)
Text(format, arg, cause) == [format |-> format, arg |-> arg, cause |-> cause]
NoText == Text("", <<>>, "")
\* no function is called on its own, no cache is built and no goroutine uses one
NoCalc == [fn |-> ""]
NoManager == [kind |-> ""]
NoProcs == <<>>
\* no command has been entered.  typed is the text of the prompt and cached the
\* release name the cache held for the selected workload when enter was hit;
\* calls are the remote calls of the closure and answer what the remote said
NoCommand ==
    [pc |-> "none", path |-> "", typed |-> <<>>, cached |-> <<>>, input |-> <<>>,
     helmRelease |-> <<>>,
     deploymentName |-> <<>>, calls |-> <<>>, answer |-> "", ret |-> <<>>,
     pending |-> <<>>,
     rawContent |-> NoText]
\* the error GetDeployment returns for a target
ErrOf(tName) == <<"E", "r", "r", " ">> \o tName

IdleCycle ==
    [pc |-> "idle", arr |-> 0, len |-> 0, T0 |-> <<>>, spawned |-> <<>>, pending |-> {},
     targetItems |-> EmptyMap, updatedSelectors |-> EmptyMap, updatedHelm |-> EmptyMap,
     combinedErr |-> NoErr, i |-> 0, j |-> 0, tmp |-> <<>>, items |-> <<>>]

\* the closures that can be in flight at once in this run
Slots == DOMAIN cycles
FreeSlots(cyc) == {c \in DOMAIN cyc : cyc[c].pc = "idle"}

\* fetchDataCmd(m.targets, m.selectors): the closure captures the slice header
NewCycle(h, sl) ==
    [IdleCycle EXCEPT !.pc = "new", !.arr = sl.arr, !.len = sl.len, !.T0 = SliceOf(h, sl)]

\* the handler's returned fetchDataCmd is started in the lowest free slot
StartCycle(cyc, h, sl) ==
    LET c == CHOOSE x \in FreeSlots(cyc) : \A y \in FreeSlots(cyc) : x <= y
    IN  [cyc EXCEPT ![c] = NewCycle(h, sl)]

\* arrays some slice header still points to
Live(sl, cyc) == ({sl.arr} \cup {cyc[c].arr : c \in DOMAIN cyc}) \ {0}
\* an array no slice header points to (the allocator's choice)
FreshArr(sl, cyc) == CHOOSE a \in ArrIds \ Live(sl, cyc) : \A b \in ArrIds \ Live(sl, cyc) : a <= b

\* Garbage collection.  An unreachable array is given back, and the arrays
\* in use are numbered in the order the slice headers (m.targets first, then
\* the cycles by slot) first mention them: an address has no meaning of its
\* own, so states that differ only in addresses are one state.
Refs(sl, cyc) == <<sl.arr>> \o [c \in DOMAIN cyc |-> cyc[c].arr]
Rank(refs, a) ==
    LET first == CHOOSE i \in 1..Len(refs) : refs[i] = a /\ \A k \in 1..(i - 1) : refs[k] # a
    IN  Cardinality({refs[k] : k \in 1..first} \ {0})
Renamed(refs, a) == IF a = 0 THEN 0 ELSE Rank(refs, a)
Collect(h, sl, cyc) ==
    LET refs == Refs(sl, cyc)
    IN  [heap |-> [r \in ArrIds |->
                     IF \E a \in Live(sl, cyc) : Rank(refs, a) = r
                     THEN h[CHOOSE a \in Live(sl, cyc) : Rank(refs, a) = r]
                     ELSE <<>>],
         sl |-> [sl EXCEPT !.arr = Renamed(refs, @)],
         cycles |-> [c \in DOMAIN cyc |-> [cyc[c] EXCEPT !.arr = Renamed(refs, @)]]]

\* const DefaultListHeight
DefaultListHeight == 20
\* const HeaderHeight, FooterHeight, UILayoutPadding
HeaderHeight == 3
FooterHeight == 1
UILayoutPadding == 2

\* the details pane before any detailsMsg was handled
NoShown == [Type |-> "", Name |-> <<>>, tab |-> 0, kind |-> "", log |-> FALSE]

\* initialModel() and Init(): the view state, the one tickCmd of Init's batch
\* and its fetchDataCmd, started in slot 1.  follow is the number of detail
\* commands this run follows from the handler that returns them to their
\* detailsMsg; between is history, a key other than "r" was handled since
\* m.partialKey became "r"; overtaken is history, the cycles in flight that were started before a
\* cycle whose items are applied already
initialModel(follow) ==
    [partialKey |-> "", between |-> FALSE, listOffset |-> 0, listHeight |-> DefaultListHeight,
     activeTab |-> 0, logFormatMode |-> TRUE, ticks |-> 1, follow |-> follow, details |-> {},
     shown |-> NoShown, order |-> <<1>>, overtaken |-> {}]

\* the slot StartCycle takes
NextSlot(cyc) == CHOOSE x \in FreeSlots(cyc) : \A y \in FreeSlots(cyc) : x <= y
\* a handler returned a fetchDataCmd, which is started in slot c
Started(u, c) == [u EXCEPT !.order = Append(@, c)]
\* the dataMsg of the cycle in slot c is handled; applied if it replaced m.items
Without(order, c) == SelectSeq(order, LAMBDA x : x # c)
Earlier(order, c) ==
    {order[k] : k \in {i \in 1..Len(order) : \E j \in (i + 1)..Len(order) : order[j] = c}}
Finished(u, c, applied) ==
    [u EXCEPT !.order = Without(@, c),
              !.overtaken = IF applied THEN (@ \cup Earlier(u.order, c)) \ {c} ELSE @ \ {c}]

\* a handler returned fetchDetailsCmd(it, tab, ...)
fetchDetailsCmd(u, it, tab) ==
    IF u.follow > 0
    THEN [u EXCEPT !.follow = @ - 1,
                   !.details = @ \cup {[Type |-> it.Type, Name |-> it.Name, tab |-> tab]}]
    ELSE u

\* initialModel() and Init(): one target, the global Deployment, and the first
\* fetchDataCmd, on a cluster k8s
Program(dep, k8s, b, n) ==
    /\ Deployment = dep
    /\ cluster = k8s
    /\ targets = [arr |-> 1, len |-> 1]
    /\ heap = [a \in ArrIds |-> IF a = 1 THEN <<dep>> ELSE <<>>]
    /\ selectors = EmptyMap
    /\ helmReleases = EmptyMap
    /\ items = <<>>
    /\ cursor = 0
    /\ err = NoErr
    /\ msgs = {}
    /\ cycles = [c \in 1..n |-> IF c = 1 THEN NewCycle(heap, targets) ELSE IdleCycle]
    /\ budget = b
    /\ removed = {}
    /\ rt = [phase |-> "none", x |-> <<>>, before |-> {}]
    /\ shownUnjoined = FALSE
    /\ command = NoCommand

\* the program, with no function called on its own and no cache in use
Start(dep, k8s, b, n) ==
    /\ Program(dep, k8s, b, n)
    /\ calc = NoCalc
    /\ manager = NoManager
    /\ procs = NoProcs
    /\ ui = initialModel(0)

Init ==
    \E k8s \in Clusters :
        Start(NameB, k8s, [add |-> MaxAdds, remove |-> MaxRemoves, tick |-> MaxRefreshes],
              MaxCycles)

(***************************************************************************)
(* fetchDataCmd: one closure per slot.  pc: new (created by a handler, not *)
(* yet running), run (tasks spawned), sort / swap (inside sort.Strings,    *)
(* swap = between the two stores of an exchange), done (blocked sending    *)
(* the dataMsg to the event loop).  The closure shares the backing array   *)
(* of the slice it was given with m.targets and with the other closures,   *)
(* and nothing orders its reads and stores against theirs: every store of  *)
(* the sort is a step of its own, and a range over the slice reads the     *)
(* array as it is at that step.                                            *)
(***************************************************************************)

\* for _, targetName := range targets { wg.Add(1); go func(tName) ... }
CycleSpawn(c) ==
    /\ cycles[c].pc = "new"
    /\ LET read == SliceOf(heap, cycles[c])
       IN  cycles' = [cycles EXCEPT ![c].pc = "run", ![c].spawned = read,
                                    ![c].pending = 1..Len(read)]
    /\ UNCHANGED <<aside, command, Deployment, cluster, heap, targets, selectors, helmReleases,
                   items, cursor, err, msgs, budget, removed, rt,
                   shownUnjoined>>

\* one task runs to its wg.Done with the reply GetDeployment gave it
TaskResult(cy, k, k8s) ==
    LET tName == cy.spawned[k]
        reply == GetDeployment(k8s, tName)
        helmName == HelmName(reply.desc)
        newSelector == NewSelector(reply.desc)
    IN  IF reply.err
        THEN [cy EXCEPT !.pending = @ \ {k},
                        !.targetItems = Put(@, tName, ErrorItems(tName)),
                        !.combinedErr = IF @ = NoErr THEN ErrOf(tName) ELSE @]
        ELSE [cy EXCEPT !.pending = @ \ {k},
                        !.targetItems = Put(@, tName, LocalItems(tName, reply.desc)),
                        !.updatedHelm = IF helmName # <<>> THEN Put(@, tName, helmName) ELSE @,
                        !.updatedSelectors =
                            IF newSelector # <<>> THEN Put(@, tName, newSelector) ELSE @]

TaskDone(c, k) ==
    /\ cycles[c].pc \in {"run", "sort", "swap"}
    /\ k \in cycles[c].pending
    /\ cycles' = [cycles EXCEPT ![c] = TaskResult(cycles[c], k, cluster)]
    /\ UNCHANGED <<aside, command, Deployment, cluster, heap, targets, selectors, helmReleases,
                   items, cursor, err, msgs, budget, removed, rt,
                   shownUnjoined>>

\* a mutation of WaitDone that does not join the tasks
WaitDoneNoJoin(cy) == TRUE

\* wg.Wait(): every task has called wg.Done
WaitDone(cy) == cy.pending = {}

\* the insertion sort of sort.Strings on n <= 12 elements, from loop indices
\* (i, j) (as in Go, from 0) to its next exchange, or to its end
RECURSIVE Scan(_, _, _, _)
Scan(data, n, i, j) ==
    IF i >= n THEN [done |-> TRUE, i |-> i, j |-> j]
    ELSE IF j > 0 /\ StrLess(data[j + 1], data[j]) THEN [done |-> FALSE, i |-> i, j |-> j]
    ELSE Scan(data, n, i + 1, i + 1)

InSort(cy) == (cy.pc = "run" /\ WaitDone(cy)) \/ cy.pc = "sort"
ScanOf(h, cy) ==
    IF cy.pc = "run" THEN Scan(h[cy.arr], cy.len, 1, 1) ELSE Scan(h[cy.arr], cy.len, cy.i, cy.j)
SortDone(h, cy) == cy.arr = 0 \/ ScanOf(h, cy).done

\* data[j], data[j-1] = data[j-1], data[j]: both operands are read, then
\* data[j] is stored ...
SortWrite1(c) ==
    /\ InSort(cycles[c])
    /\ ~SortDone(heap, cycles[c])
    /\ LET cy == cycles[c]
           at == ScanOf(heap, cy)
           data == heap[cy.arr]
       IN  /\ heap' = [heap EXCEPT ![cy.arr][at.j + 1] = data[at.j]]
           /\ cycles' = [cycles EXCEPT ![c].pc = "swap", ![c].i = at.i, ![c].j = at.j,
                                        ![c].tmp = data[at.j + 1]]
    /\ UNCHANGED <<aside, command, Deployment, cluster, targets, selectors, helmReleases,
                   items, cursor, err, msgs, budget, removed, rt,
                   shownUnjoined>>

\* ... and then data[j-1]
SortWrite2(c) ==
    /\ cycles[c].pc = "swap"
    /\ LET cy == cycles[c]
       IN  /\ heap' = [heap EXCEPT ![cy.arr][cy.j] = cy.tmp]
           /\ cycles' = [cycles EXCEPT ![c].pc = "sort", ![c].j = cy.j - 1, ![c].tmp = <<>>]
    /\ UNCHANGED <<aside, command, Deployment, cluster, targets, selectors, helmReleases,
                   items, cursor, err, msgs, budget, removed, rt,
                   shownUnjoined>>

\* for _, tName := range targets { if items, exists := targetItems[tName]; exists {...} }
RECURSIVE Assemble(_, _)
Assemble(names, targetItems) ==
    IF names = <<>> THEN <<>>
    ELSE (IF Head(names) \in DOMAIN targetItems THEN targetItems[Head(names)] ELSE <<>>)
         \o Assemble(Tail(names), targetItems)

\* the sort has ended: assemble globalItems and return the dataMsg
Publish(c) ==
    /\ InSort(cycles[c])
    /\ SortDone(heap, cycles[c])
    /\ cycles' = [cycles EXCEPT ![c].pc = "done",
                                 ![c].items = Assemble(SliceOf(heap, cycles[c]),
                                                       cycles[c].targetItems)]
    /\ UNCHANGED <<aside, command, Deployment, cluster, heap, targets, selectors, helmReleases,
                   items, cursor, err, msgs, budget, removed, rt,
                   shownUnjoined>>

(***************************************************************************)
(* model.Update: the system messages.                                      *)
(***************************************************************************)
NoRt == [phase |-> "none", x |-> <<>>, before |-> {}]

\* no exchange of a sort is half done on the array of m.targets
Stable == \A c \in Slots : cycles[c].pc = "swap" => cycles[c].arr # targets.arr

\* the cursor after msg.items replaced m.items
RestoredCursorClamped(old, cur, new) == ensureCursorInBounds(cur, Len(new))
RestoredCursor(old, cur, new) ==
    LET hasSel == Len(old) > 0 /\ cur < Len(old)
        same(i) == new[i].Type = old[cur + 1].Type /\ new[i].Name = old[cur + 1].Name
    IN  IF hasSel /\ Len(new) > 0 /\ \E i \in 1..Len(new) : same(i)
        THEN (CHOOSE i \in 1..Len(new) : same(i) /\ \A k \in 1..(i - 1) : ~same(k)) - 1
        ELSE ensureCursorInBounds(cur, Len(new))

\* case dataMsg
HandleDataMsg(c) ==
    /\ cycles[c].pc = "done"
    /\ LET msg == cycles[c]
       IN  IF msg.combinedErr # NoErr
           THEN /\ err' = msg.combinedErr
                /\ ui' = Finished(ui, c, FALSE)
                /\ UNCHANGED <<items, selectors, helmReleases, cursor, shownUnjoined>>
           ELSE /\ err' = NoErr
                /\ items' = msg.items
                /\ selectors' = MergeMap(selectors, msg.updatedSelectors)
                /\ helmReleases' = MergeMap(helmReleases, msg.updatedHelm)
                /\ cursor' = RestoredCursor(items, cursor, msg.items)
                /\ shownUnjoined' = ~(Range(msg.spawned) \subseteq DOMAIN msg.targetItems)
                /\ ui' = IF Len(msg.items) > 0
                          THEN fetchDetailsCmd(Finished(ui, c, TRUE), msg.items[cursor' + 1],
                                               ui.activeTab)
                          ELSE Finished(ui, c, TRUE)
    /\ LET gc == Collect(heap, targets, [cycles EXCEPT ![c] = IdleCycle])
       IN  heap' = gc.heap /\ targets' = gc.sl /\ cycles' = gc.cycles
    /\ rt' = NoRt
    /\ UNCHANGED <<apart, command, Deployment, cluster, msgs, budget, removed>>

\* m.targets = append(m.targets, name): the new slice header and heap
AppendTarget(h, sl, cyc, name) ==
    IF sl.len < CapOf(h, sl)
    THEN [sl |-> [arr |-> sl.arr, len |-> sl.len + 1],
          heap |-> [h EXCEPT ![sl.arr][sl.len + 1] = name]]
    ELSE LET a == FreshArr(sl, cyc)
         IN  [sl |-> [arr |-> a, len |-> sl.len + 1],
              heap |-> [h EXCEPT ![a] = MakeArray(Append(SliceOf(h, sl), name),
                                                  GrowCap(CapOf(h, sl), sl.len + 1))]]

\* case addTargetMsg
HandleAddTargetMsg(msg) ==
    /\ msg \in msgs /\ msg.type = "add"
    /\ FreeSlots(cycles) # {}
    /\ LET exists == msg.name \in Range(Targets)
           app == IF exists THEN [sl |-> targets, heap |-> heap]
                  ELSE AppendTarget(heap, targets, cycles, msg.name)
           gc == Collect(app.heap, app.sl, StartCycle(cycles, app.heap, app.sl))
       IN  /\ heap' = gc.heap /\ targets' = gc.sl /\ cycles' = gc.cycles
           /\ rt' = IF ~exists /\ Stable
                    THEN [phase |-> "added", x |-> msg.name, before |-> Range(Targets)]
                    ELSE NoRt
    /\ msgs' = msgs \ {msg}
    /\ removed' = removed \ {msg.name}
    /\ ui' = Started(ui, NextSlot(cycles))
    /\ UNCHANGED <<apart, command, Deployment, cluster, selectors, helmReleases, items, cursor, err,
                   budget, shownUnjoined>>

\* var newTargets []string; for ... { newTargets = append(newTargets, t) }
RemoveTarget(h, sl, cyc, name) ==
    LET Keep(t) == t # name
        kept == SelectSeq(SliceOf(h, sl), Keep)
        a == FreshArr(sl, cyc)
    IN  IF kept = <<>> THEN [sl |-> NilSlice, heap |-> h]
        ELSE [sl |-> [arr |-> a, len |-> Len(kept)],
              heap |-> [h EXCEPT ![a] = MakeArray(kept, CapAfter(Len(kept)))]]

\* case removeTargetMsg
HandleRemoveTargetMsg(msg) ==
    /\ msg \in msgs /\ msg.type = "remove"
    /\ FreeSlots(cycles) # {}
    /\ LET rem == RemoveTarget(heap, targets, cycles, msg.name)
           gc == Collect(rem.heap, rem.sl, StartCycle(cycles, rem.heap, rem.sl))
       IN  /\ heap' = gc.heap /\ targets' = gc.sl /\ cycles' = gc.cycles
           /\ cursor' = IF rem.sl.len = 0 THEN 0 ELSE cursor
    /\ selectors' = Delete(selectors, msg.name)
    /\ helmReleases' = Delete(helmReleases, msg.name)
    /\ msgs' = msgs \ {msg}
    /\ removed' = IF msg.name \in Range(Targets) THEN removed \cup {msg.name} ELSE removed
    /\ rt' = NoRt
    /\ ui' = Started(ui, NextSlot(cycles))
    /\ UNCHANGED <<apart, command, Deployment, cluster, items, err, budget, shownUnjoined>>

\* case tickMsg: a new fetch cycle (and the next tick)
Tick ==
    /\ budget.tick > 0
    /\ FreeSlots(cycles) # {}
    /\ cycles' = StartCycle(cycles, heap, targets)
    /\ budget' = [budget EXCEPT !.tick = @ - 1]
    /\ ui.ticks > 0
    /\ ui' = Started(ui, NextSlot(cycles))
    /\ UNCHANGED <<apart, command, Deployment, cluster, heap, targets, selectors, helmReleases,
                   items, cursor, err, msgs, removed, rt, shownUnjoined>>

(***************************************************************************)
(* model.Update: the enter key in input mode.                              *)
(***************************************************************************)
\* what the user may type at the "Add deployment: " prompt
PromptAddInputs == {NameA, NameB, NameC, <<" ", "a">>, <<>>, <<" ">>, <<"-", "a">>, NameUpper, <<"a", "_">>}
\* what the user may type at the "Remove deployment: " prompt
PromptRemoveInputs == {<<>>, NameA, NameB}
\* what the user may type at the ": " prompt to add or remove a target
AddWord == <<"a", "d", "d">>
RemoveWord == <<"r", "e", "m", "o", "v", "e">>
CommandLines ==
    {AddWord \o <<" ">> \o NameA, AddWord \o <<" ">> \o NameUpper,
     <<" ">> \o AddWord \o <<" ", " ">> \o NameA \o <<" ">>,
     RemoveWord, RemoveWord \o <<" ">> \o NameA, RemoveWord \o <<" ">> \o NameB,
     RemoveWord \o <<" ">> \o NameUpper \o <<" ">> \o NameA}

\* the handler returns without a command: it only puts text into the details
\* pane (m.rawContent, which is display state and not part of this model)
Reject(text) == UNCHANGED vars

\* return m, func() tea.Msg { return addTargetMsg{name} } (or removeTargetMsg)
Emit(type, name) ==
    /\ budget[type] > 0
    /\ [type |-> type, name |-> name] \notin msgs
    /\ msgs' = msgs \cup {[type |-> type, name |-> name]}
    /\ budget' = [budget EXCEPT ![type] = @ - 1]
    /\ UNCHANGED <<aside, command, Deployment, cluster, heap, targets, selectors, helmReleases,
                   items, cursor, err, cycles, removed, rt, shownUnjoined>>

\* the name check of the "add" shortcut
AddNameAccepted(val) == isValidK8sName(val)

\* enter with shortcutMode = "add"
ShortcutAdd(input) ==
    LET val == TrimSpace(input)
    IN  IF val = <<>> THEN Reject("Deployment name cannot be empty")
        ELSE IF ~AddNameAccepted(val)
        THEN Reject("Invalid deployment name. Must be lowercase alphanumeric with hyphens only.")
        ELSE Emit("add", val)

\* the guard of both remove paths: len(m.targets) <= 1
IsLastTarget(sl) == sl.len <= 1

\* enter with shortcutMode = "remove"
ShortcutRemove(input) ==
    IF IsLastTarget(targets) THEN Reject("Cannot remove the last deployment target")
    ELSE LET val == IF input = <<>> THEN getCurrentDeploymentName(items, cursor) ELSE input
         IN  IF val # <<>> THEN Emit("remove", val) ELSE UNCHANGED vars

\* the command lines Update handles itself: add <name>, remove [<name>]
IsTargetCommand(parts) ==
    \/ Len(parts) >= 2 /\ parts[1] = AddWord
    \/ Len(parts) >= 1 /\ parts[1] = RemoveWord

\* enter on the ':' command line
CommandEnter(line) ==
    LET parts == Fields(line)
    IN  /\ IsTargetCommand(parts)
        /\ IF Len(parts) >= 2 /\ parts[1] = AddWord THEN Emit("add", parts[2])
           ELSE LET targetToRemove ==
                        IF Len(parts) >= 2 THEN parts[2]
                        ELSE getCurrentDeploymentName(items, cursor)
                IN  IF targetToRemove = <<>>
                    THEN Reject("Usage: remove <deployment_name> or select a deployment first")
                    ELSE IF targetToRemove \notin Range(Targets)
                    THEN Reject("Target not found in current deployments")
                    ELSE IF IsLastTarget(targets)
                    THEN Reject("Cannot remove the last deployment target")
                    ELSE Emit("remove", targetToRemove)

(***************************************************************************)
(* Commands: the scale and rollback prompts, the ':' command line, and     *)
(* executeCommand.  command.pc: none (nothing entered), rejected (Update   *)
(* answered in the details pane), queued (the executeCommand closure was   *)
(* returned as a tea.Cmd), returned (the closure ran), handled (Update got *)
(* its messages).                                                          *)
(***************************************************************************)
ScaleWord == <<"s", "c", "a", "l", "e">>
RestartWord == <<"r", "e", "s", "t", "a", "r", "t">>
RollbackWord == <<"r", "o", "l", "l", "b", "a", "c", "k">>
FetchWord == <<"f", "e", "t", "c", "h">>

\* getCurrentHelmRelease
getCurrentHelmRelease(its, cur, releases) ==
    LET deploymentName == getCurrentDeploymentName(its, cur)
    IN  IF deploymentName = <<>> THEN <<>>
        ELSE IF deploymentName \in DOMAIN releases THEN releases[deploymentName]
        ELSE <<>>

\* what the remote call of a command may answer: nil, or an error
NoCause == ""
RemoteErrs == {NoCause, "context deadline exceeded"}

CommandFinishedMsg == [type |-> "commandFinishedMsg", err |-> NoText, content |-> ""]
DetailsErr(e) == [type |-> "detailsMsg", err |-> e, content |-> ""]
DetailsContent(c) == [type |-> "detailsMsg", err |-> NoText, content |-> c]
TickCmd == [type |-> "tickCmd", err |-> NoText, content |-> ""]

\* what one run of an executeCommand closure does: its remote calls, in
\* order, and the messages it returns
Ran(calls, ret) == [calls |-> calls, ret |-> ret]
Refused(e) == Ran(<<>>, <<DetailsErr(e)>>)

\* err := client.X(...); if err != nil { return detailsMsg{err: ...} };
\* return commandFinishedMsg{}
RemoteRetry(call, failed, remoteErr) ==
    IF remoteErr # NoCause
    THEN Ran(<<call, call>>, <<DetailsErr(Text(failed, <<>>, remoteErr))>>)
    ELSE Ran(<<call>>, <<CommandFinishedMsg>>)
Remote(call, failed, remoteErr) ==
    Ran(<<call>>,
        IF remoteErr # NoCause THEN <<DetailsErr(Text(failed, <<>>, remoteErr))>>
        ELSE <<CommandFinishedMsg>>)

\* the guard of both rollback paths: helmRelease == ""
NoReleaseNever(helmRelease) == FALSE
NoRelease(helmRelease) == helmRelease = <<>>

\* executeCommand(input, helmRelease, deploymentName)(), when its remote
\* call (if it makes one) answers remoteErr
executeCommand(input, helmRelease, deploymentName, remoteErr) ==
    LET parts == Fields(input)
    IN  IF Len(parts) = 0 THEN Ran(<<>>, <<>>)
        ELSE IF parts[1] = ScaleWord
        THEN IF Len(parts) < 2 THEN Refused(Text("Usage: scale <replicas>", <<>>, ""))
             ELSE IF deploymentName = <<>>
             THEN Refused(Text("No deployment selected", <<>>, ""))
             ELSE IF Sscanf(parts[2]).err
             THEN Refused(Text("Invalid replica count: %s", parts[2], ""))
             ELSE Remote([fn |-> "ScaleDeployment", name |-> deploymentName,
                          n |-> Sscanf(parts[2]).n], "Scale failed: %v", remoteErr)
        ELSE IF parts[1] = RestartWord
        THEN IF deploymentName = <<>>
             THEN Refused(Text("No deployment selected", <<>>, ""))
             ELSE Remote([fn |-> "RestartDeployment", name |-> deploymentName, n |-> 0],
                         "Restart failed: %v", remoteErr)
        ELSE IF parts[1] = RollbackWord
        THEN IF NoRelease(helmRelease)
             THEN Refused(Text("No Helm release associated.", <<>>, ""))
             ELSE IF Len(parts) < 2 THEN Refused(Text("Usage: rollback <revision>", <<>>, ""))
             ELSE IF Sscanf(parts[2]).err
             THEN Refused(Text("Invalid revision: %s", parts[2], ""))
             ELSE Remote([fn |-> "RollbackHelm", name |-> helmRelease,
                          n |-> Sscanf(parts[2]).n], "Rollback failed: %v", remoteErr)
        ELSE IF parts[1] = FetchWord
        THEN Ran(<<>>, <<DetailsContent("Manual Refresh..."), CommandFinishedMsg, TickCmd>>)
        ELSE Refused(Text("Unknown command: %s", parts[1], ""))

\* m.rawContent = text; return m, nil
Answer(path, typed, text) ==
    /\ command' = [command EXCEPT !.pc = "rejected", !.path = path, !.typed = typed,
                                  !.cached = getCurrentHelmRelease(items, cursor, helmReleases),
                                  !.rawContent = Text(text, <<>>, "")]
    /\ UNCHANGED <<aside, Deployment, cluster, heap, targets, selectors, helmReleases,
                   items, cursor, err, msgs, cycles, budget, removed, rt,
                   shownUnjoined>>

\* return m, executeCommand(input, helmRelease, deploymentName)
Queue(path, typed, input, helmRelease, deploymentName) ==
    /\ command' = [command EXCEPT !.pc = "queued", !.path = path, !.typed = typed,
                                  !.cached = getCurrentHelmRelease(items, cursor, helmReleases),
                                  !.input = input, !.helmRelease = helmRelease,
                                  !.deploymentName = deploymentName]
    /\ UNCHANGED <<aside, Deployment, cluster, heap, targets, selectors, helmReleases,
                   items, cursor, err, msgs, cycles, budget, removed, rt,
                   shownUnjoined>>

\* what the user may type at the "Scale to: " and "Rollback to revision: "
\* prompts
NumberInputs ==
    {<<>>, <<" ">>, <<"3">>, <<" ", "3">>, <<"-", "1">>, <<"0">>, <<"0", "0">>,
     <<"a", "b", "c">>, <<"1", "0">>, <<"3", "a">>}

\* enter with shortcutMode = "scale"
ShortcutScale(val) ==
    /\ command.pc = "none"
    /\ IF val = <<>> THEN Answer("scale", val, "Scale value cannot be empty")
       ELSE IF TrimSpace(val) = <<>> \/ ~isPositiveInteger(val)
       THEN Answer("scale", val, "Scale value must be a positive integer")
       ELSE Queue("scale", val, ScaleWord \o <<" ">> \o val, <<>>,
                  getCurrentDeploymentName(items, cursor))

\* enter with shortcutMode = "rollback"
ShortcutRollback(val) ==
    /\ command.pc = "none"
    /\ IF val = <<>> THEN Answer("rollback", val, "Revision number cannot be empty")
       ELSE IF ~isPositiveInteger(val)
       THEN Answer("rollback", val, "Revision must be a positive integer")
       ELSE IF NoRelease(getCurrentHelmRelease(items, cursor, helmReleases))
       THEN Answer("rollback", val, "No Helm release found for current deployment")
       ELSE Queue("rollback", val, RollbackWord \o <<" ">> \o val,
                  getCurrentHelmRelease(items, cursor, helmReleases), <<>>)

\* what the user may type at the ": " prompt to run a command
RunLines ==
    {ScaleWord, RollbackWord, RestartWord, <<"a", "b", "c">>}
    \cup {ScaleWord \o <<" ">> \o n : n \in NumberInputs \ {<<>>, <<" ">>}}
    \cup {RollbackWord \o <<" ">> \o n : n \in NumberInputs \ {<<>>, <<" ">>}}
    \cup {ScaleWord \o <<" ">> \o <<"+", "3">>, RollbackWord \o <<" ">> \o <<"1", "_", "0">>}

\* enter on the ':' command line, for a line that is neither add nor remove
CommandRun(line) ==
    /\ command.pc = "none"
    /\ Fields(line) # <<>>
    /\ ~IsTargetCommand(Fields(line))
    /\ Queue("line", line, line, getCurrentHelmRelease(items, cursor, helmReleases),
             getCurrentDeploymentName(items, cursor))

\* enter on the ':' command line, for a line without a token: parts is empty,
\* len(parts) >= 2 is false, and parts[0] == "remove" indexes the empty slice:
\* the runtime panics (index out of range) in Update and the program ends
CommandEnterEmpty(line) ==
    /\ command.pc = "none"
    /\ LET parts == Fields(line)
       IN  /\ ~(Len(parts) >= 2 /\ parts[1] = AddWord)
           /\ Len(parts) = 0
    /\ command' = [command EXCEPT !.pc = "panic", !.path = "line", !.typed = line]
    /\ UNCHANGED <<aside, Deployment, cluster, heap, targets, selectors, helmReleases,
                   items, cursor, err, msgs, cycles, budget, removed, rt,
                   shownUnjoined>>

\* the closure runs in its goroutine, and its remote call answers remoteErr
Execute(remoteErr) ==
    /\ command.pc = "queued"
    /\ LET ran == executeCommand(command.input, command.helmRelease,
                                 command.deploymentName, remoteErr)
       IN  /\ ran.calls = <<>> => remoteErr = NoCause
           /\ command' = [command EXCEPT !.pc = IF ran.ret = <<>> THEN "handled" ELSE "returned",
                                         !.calls = ran.calls, !.answer = remoteErr,
                                         !.ret = ran.ret,
                                         !.pending = ran.ret]
    /\ UNCHANGED <<aside, Deployment, cluster, heap, targets, selectors, helmReleases,
                   items, cursor, err, msgs, cycles, budget, removed, rt,
                   shownUnjoined>>

\* the message the event loop takes next from the closure
Taken(cmd) ==
    [cmd EXCEPT !.pending = Tail(@), !.pc = IF Len(cmd.pending) = 1 THEN "handled" ELSE @]

\* case commandFinishedMsg: a new fetch cycle
HandleCommandFinishedMsg ==
    /\ command.pc = "returned"
    /\ Head(command.pending).type = "commandFinishedMsg"
    /\ FreeSlots(cycles) # {}
    /\ cycles' = StartCycle(cycles, heap, targets)
    /\ command' = Taken(command)
    /\ ui' = Started(ui, NextSlot(cycles))
    /\ UNCHANGED <<apart, Deployment, cluster, heap, targets, selectors, helmReleases,
                   items, cursor, err, msgs, budget, removed, rt, shownUnjoined>>

\* case detailsMsg: isLogContent, from the item at the cursor and the tab
isLogContent(its, cur, tab) ==
    LET inRange == Len(its) > 0 /\ cur < Len(its)
    IN  \/ inRange /\ its[cur + 1].Type = "DEP" /\ tab = 2
        \/ inRange /\ its[cur + 1].Type = "POD" /\ tab = 1

\* what the details pane holds after a detailsMsg: for is the item and tab
\* the message was produced for (none for the message of a command), and
\* log whether its content went through processLogContent
Shown(for, kind, log) ==
    [Type |-> for.Type, Name |-> for.Name, tab |-> for.tab, kind |-> kind, log |-> log]
OfCommand == [Type |-> "", Name |-> <<>>, tab |-> 0]

\* case detailsMsg, for the message of a command: m.rawContent is
\* "Error: " + msg.err, or msg.content (isYaml is false)
HandleDetailsMsg ==
    /\ command.pc = "returned"
    /\ Head(command.pending).type = "detailsMsg"
    /\ LET msg == Head(command.pending)
       IN  IF msg.err # NoText
           THEN /\ command' = [Taken(command) EXCEPT !.rawContent = msg.err]
                /\ ui' = [ui EXCEPT !.shown = Shown(OfCommand, "err", FALSE)]
           ELSE /\ command' = [Taken(command) EXCEPT !.rawContent = Text(msg.content, <<>>, "")]
                /\ ui' = [ui EXCEPT !.shown = Shown(OfCommand, "text",
                                                    isLogContent(items, cursor, ui.activeTab))]
    /\ UNCHANGED <<apart, Deployment, cluster, heap, targets, selectors, helmReleases,
                   items, cursor, err, msgs, cycles, budget, removed, rt,
                   shownUnjoined>>

\* the tickCmd() of the batch ":fetch" returns: the runtime starts the timer
HandleTickCmd ==
    /\ command.pc = "returned"
    /\ Head(command.pending).type = "tickCmd"
    /\ command' = Taken(command)
    /\ ui' = [ui EXCEPT !.ticks = @ + 1]
    /\ UNCHANGED <<apart, Deployment, cluster, heap, targets, selectors, helmReleases,
                   items, cursor, err, msgs, cycles, budget, removed, rt,
                   shownUnjoined>>

(***************************************************************************)
(* The program.                                                            *)
(***************************************************************************)
\* the goroutines of the fetch cycles
FetchNext ==
    \/ \E c \in Slots : CycleSpawn(c)
    \/ \E c \in Slots : \E k \in cycles[c].pending : TaskDone(c, k)
    \/ \E c \in Slots : SortWrite1(c)
    \/ \E c \in Slots : SortWrite2(c)
    \/ \E c \in Slots : Publish(c)

\* the event loop: messages of the commands
UpdateNext ==
    \/ \E c \in Slots : HandleDataMsg(c)
    \/ \E msg \in msgs : HandleAddTargetMsg(msg)
    \/ \E msg \in msgs : HandleRemoveTargetMsg(msg)

\* the event loop: the enter key
KeyNext ==
    \/ \E input \in PromptAddInputs : ShortcutAdd(input)
    \/ \E input \in PromptRemoveInputs : ShortcutRemove(input)
    \/ \E line \in CommandLines : CommandEnter(line)

Next == FetchNext \/ UpdateNext \/ Tick \/ KeyNext

Spec == Init /\ [][Next]_vars

\* The program as Spec reaches it when ":add a" has been handled after the
\* first fetch result was applied: m.targets is the grown array ["b", "a"],
\* and the fetch cycle of that add has not started to run.  From here one
\* more add and one remove are explored, with one more cycle in flight.
AfterFirstAdd ==
    /\ Deployment = NameB
    /\ cluster = (NameA :> ReplyOk(DescPlain)) @@ (NameB :> ReplyOk(DescRich))
    /\ targets = [arr |-> 1, len |-> 2]
    /\ heap = [a \in ArrIds |-> IF a = 1 THEN <<NameB, NameA>> ELSE <<>>]
    /\ selectors = (NameB :> NewSelector(DescRich))
    /\ helmReleases = (NameB :> HelmName(DescRich))
    /\ items = LocalItems(NameB, DescRich)
    /\ cursor = 0
    /\ err = NoErr
    /\ msgs = {}
    /\ removed = {}
    /\ rt = [phase |-> "added", x |-> NameA, before |-> {NameB}]
    /\ shownUnjoined = FALSE
    /\ command = NoCommand
    /\ calc = NoCalc
    /\ manager = NoManager
    /\ procs = NoProcs
    /\ ui = initialModel(0)

InitRoundTrip ==
    /\ AfterFirstAdd
    /\ cycles = [c \in 1..(MaxCycles + 1) |->
                    IF c = 1 THEN NewCycle(heap, targets) ELSE IdleCycle]
    /\ budget = [add |-> MaxAdds, remove |-> MaxRemoves - 1, tick |-> 0]

NextRoundTrip == FetchNext \/ UpdateNext \/ KeyNext

SpecRoundTrip == InitRoundTrip /\ [][NextRoundTrip]_vars

(***************************************************************************)
(* The command paths: the program on one target, with the cursor keys, the *)
(* scale and rollback prompts and the command line.  One command is        *)
(* followed from the enter key to the handling of its messages.            *)
(***************************************************************************)
\* case "down", "j"
CursorDown ==
    /\ cursor < Len(items) - 1
    /\ cursor' = cursor + 1
    /\ ui' = fetchDetailsCmd(
                 [ui EXCEPT !.listOffset = IF cursor' >= @ + ui.listHeight THEN @ + 1 ELSE @,
                            !.activeTab = 0, !.between = @ \/ ui.partialKey = "r"],
                 items[cursor' + 1], 0)
    /\ UNCHANGED <<apart, command, Deployment, cluster, heap, targets, selectors, helmReleases,
                   items, err, msgs, cycles, budget, removed, rt, shownUnjoined>>

\* case "up", "k"
CursorUp ==
    /\ cursor > 0
    /\ cursor' = cursor - 1
    /\ ui' = fetchDetailsCmd(
                 [ui EXCEPT !.listOffset = IF cursor' < @ THEN cursor' ELSE @,
                            !.activeTab = 0, !.between = @ \/ ui.partialKey = "r"],
                 items[cursor' + 1], 0)
    /\ UNCHANGED <<apart, command, Deployment, cluster, heap, targets, selectors, helmReleases,
                   items, err, msgs, cycles, budget, removed, rt, shownUnjoined>>

InitCommand ==
    \E dep \in {NameA, NameB}, k8s \in Clusters :
        Start(dep, k8s, [add |-> 0, remove |-> 0, tick |-> 0], MaxCycles)

\* Update has not panicked: the program runs
Alive == command.pc # "panic"
\* the ':' lines without a token
EmptyLines == {<<>>, <<" ">>, <<" ", " ">>}

NextCommand ==
    \/ Alive /\ \E c \in Slots : CycleSpawn(c)
    \/ Alive /\ \E c \in Slots : \E k \in cycles[c].pending : TaskDone(c, k)
    \/ Alive /\ \E c \in Slots : Publish(c)
    \/ Alive /\ \E c \in Slots : HandleDataMsg(c)
    \/ Alive /\ CursorDown
    \/ Alive /\ CursorUp
    \/ Alive /\ \E val \in NumberInputs : ShortcutScale(val)
    \/ Alive /\ \E val \in NumberInputs : ShortcutRollback(val)
    \/ Alive /\ \E line \in RunLines : CommandRun(line)
    \/ Alive /\ \E remoteErr \in RemoteErrs : Execute(remoteErr)
    \/ Alive /\ HandleCommandFinishedMsg
    \/ Alive /\ HandleDetailsMsg
    \/ \E line \in EmptyLines : CommandEnterEmpty(line)

SpecCommand == InitCommand /\ [][NextCommand]_vars

(***************************************************************************)
(* Discovery: the program on one target, over the descriptors and pods a   *)
(* cluster may answer with, from the first fetch to its display.           *)
(***************************************************************************)
MaxContainers == 2

\* status.containerStatuses[i]: ready, state.waiting.reason and
\* state.terminated.reason (a container is in one state at a time)
ContainerStatuses ==
    {c \in [ready : BOOLEAN,
            waiting : {"", "CrashLoopBackOff", "ImagePullBackOff"},
            terminated : {"", "Error", "Completed"}] :
        c.waiting = "" \/ c.terminated = ""}

\* the pods ListPods may return
Pods ==
    {[name |-> <<"b", "-", "0">>, phase |-> ph, deleting |-> del, containers |-> cs] :
        ph \in {"Pending", "Running", "Failed"}, del \in BOOLEAN,
        cs \in SeqsUpTo(ContainerStatuses, MaxContainers)}

\* the descriptors GetDeployment may return: the release name in the
\* annotation meta.helm.sh/release-name, in the label of that name and in the
\* label app.kubernetes.io/instance, each present or not
Descriptors ==
    {[helmAnn |-> ann, helmLabel |-> lab, instLabel |-> inst,
      refs |-> DescRich.refs, matchLabels |-> DescRich.matchLabels,
      podsErr |-> FALSE, pods |-> <<p>>] :
        ann \in {<<>>, <<"r">>}, lab \in {<<>>, <<"l">>}, inst \in {<<>>, <<"i">>},
        p \in Pods}

InitDiscovery ==
    \E desc \in Descriptors :
        Start(NameB, (NameB :> ReplyOk(desc)), [add |-> 0, remove |-> 0, tick |-> 0], 1)

NextDiscovery ==
    \/ \E c \in Slots : CycleSpawn(c)
    \/ \E c \in Slots : \E k \in cycles[c].pending : TaskDone(c, k)
    \/ \E c \in Slots : Publish(c)
    \/ \E c \in Slots : HandleDataMsg(c)

SpecDiscovery == InitDiscovery /\ [][NextDiscovery]_vars

(***************************************************************************)
(* Releases over time: the program on one target while the workload is     *)
(* redeployed, with or without a release, between its periodic fetches.    *)
(***************************************************************************)
MaxPolls == 3

\* the workload of the cluster is replaced: the next GetDeployment answers
\* with the descriptor desc
Redeploy(desc) ==
    /\ cluster[Deployment] # ReplyOk(desc)
    /\ cluster' = [cluster EXCEPT ![Deployment] = ReplyOk(desc)]
    /\ UNCHANGED <<aside, command, Deployment, heap, targets, selectors, helmReleases,
                   items, cursor, err, msgs, cycles, budget, removed, rt,
                   shownUnjoined>>

InitRelease ==
    \E desc \in {DescPlain, DescRich} :
        Start(NameB, (NameB :> ReplyOk(desc)), [add |-> 0, remove |-> 0, tick |-> MaxPolls],
              MaxCycles)

NextRelease ==
    \/ \E c \in Slots : CycleSpawn(c)
    \/ \E c \in Slots : \E k \in cycles[c].pending : TaskDone(c, k)
    \/ \E c \in Slots : Publish(c)
    \/ \E c \in Slots : HandleDataMsg(c)
    \/ Tick
    \/ \E desc \in {DescPlain, DescRich} : Redeploy(desc)

SpecRelease == InitRelease /\ [][NextRelease]_vars

(***************************************************************************)
(* The cursor over refreshes: the program on one target whose workload is  *)
(* redeployed between the periodic fetches, with the cursor keys.          *)
(***************************************************************************)
\* a found workload with a release and no references, selector and pods
DescReleased == [DescPlain EXCEPT !.helmAnn = <<"r">>]
\* a found workload with other references first, and no release
DescOther ==
    [DescPlain EXCEPT !.refs = <<[sec |-> <<"d">>, cm |-> <<"m">>], [sec |-> <<"e">>, cm |-> <<>>]>>]
CursorDescs == {DescPlain, DescRich, DescReleased, DescOther}

InitCursor ==
    \E desc \in CursorDescs :
        Start(NameB, (NameB :> ReplyOk(desc)), [add |-> 0, remove |-> 0, tick |-> MaxPolls],
              1)

NextCursor ==
    \/ \E c \in Slots : CycleSpawn(c)
    \/ \E c \in Slots : \E k \in cycles[c].pending : TaskDone(c, k)
    \/ \E c \in Slots : Publish(c)
    \/ \E c \in Slots : HandleDataMsg(c)
    \/ Tick
    \/ \E desc \in CursorDescs : Redeploy(desc)
    \/ CursorDown
    \/ CursorUp

SpecCursor == InitCursor /\ [][NextCursor]_vars

(***************************************************************************)
(* Functions of the program called on their own.  The program itself is    *)
(* left as it is built; calc holds the input of the call, then its result. *)
(***************************************************************************)
\* the program around a call: built on deployment "b", and not running
Beside ==
    /\ Program(NameB, (NameB :> ReplyOk(DescRich)), [add |-> 0, remove |-> 0, tick |-> 0], 1)
    /\ manager = NoManager
    /\ procs = NoProcs
    /\ ui = initialModel(0)
CalcStep ==
    UNCHANGED <<Deployment, cluster, heap, targets, selectors, helmReleases, items, cursor,
                err, msgs, cycles, budget, removed, rt, shownUnjoined, command, manager,
                procs, ui>>

(***************************************************************************)
(* The selector of a descriptor, from spec.selector.matchLabels as the     *)
(* document lists them.                                                    *)
(***************************************************************************)
MaxLabels == 3
LabelKeys == {<<"a">>, <<"b">>, <<"a", "b">>}
LabelValues == {<<"1">>, <<"2">>}

\* the match-labels of a document: key/value pairs in the order of the text,
\* no key twice
LabelDocs ==
    {doc \in SeqsUpTo([k : LabelKeys, v : LabelValues], MaxLabels) :
        \A i, j \in 1..Len(doc) : i # j => doc[i].k # doc[j].k}

\* gjson Result.Map(): the pairs of the document as a Go map
RECURSIVE GjsonMap(_)
GjsonMap(doc) ==
    IF doc = <<>> THEN EmptyMap
    ELSE Put(GjsonMap(SubSeq(doc, 1, Len(doc) - 1)), doc[Len(doc)].k, doc[Len(doc)].v)

\* for k := range selectorMap { keys = append(keys, k) }: Go ranges over a
\* map in an order of its choice
RECURSIVE RangeOrders(_)
RangeOrders(ks) ==
    IF ks = {} THEN {<<>>}
    ELSE UNION {{<<k>> \o rest : rest \in RangeOrders(ks \ {k})} : k \in ks}

\* sort.Strings(keys): the insertion sort of up to 12 elements
RECURSIVE InsertKey(_, _)
InsertKey(sorted, k) ==
    IF sorted # <<>> /\ StrLess(k, sorted[Len(sorted)])
    THEN Append(InsertKey(SubSeq(sorted, 1, Len(sorted) - 1), k), sorted[Len(sorted)])
    ELSE Append(sorted, k)
SortStringsSkipped(keys) == keys
RECURSIVE SortStrings(_)
SortStrings(keys) ==
    IF keys = <<>> THEN <<>>
    ELSE InsertKey(SortStrings(SubSeq(keys, 1, Len(keys) - 1)), keys[Len(keys)])

\* newSelector, when the range over selectorMap yields keys
SelectorOf(selectorMap, keys) == JoinLabels(SortStrings(keys), selectorMap)

InitSelector ==
    /\ Beside
    /\ \E doc \in LabelDocs : calc = [fn |-> "newSelector", pc |-> "call", doc |-> doc,
                                      keys |-> <<>>, out |-> <<>>]

\* the selector is computed, the range having yielded keys
ComputeSelector(keys) ==
    /\ calc.fn = "newSelector" /\ calc.pc = "call"
    /\ keys \in RangeOrders(DOMAIN GjsonMap(calc.doc))
    /\ calc' = [calc EXCEPT !.pc = "done", !.keys = keys,
                            !.out = SelectorOf(GjsonMap(calc.doc), keys)]
    /\ CalcStep

NextSelector ==
    \E keys \in UNION {RangeOrders(ks) : ks \in SUBSET LabelKeys} : ComputeSelector(keys)

SpecSelector == InitSelector /\ [][NextSelector]_vars

(***************************************************************************)
(* References: the program on one target, over the secret and config       *)
(* references a descriptor may hold.                                       *)
(***************************************************************************)
MaxRefs == 3

\* one envFrom entry, env entry or volume, in the order the scan visits
\* them: the secret and the config map it names ("" for none)
RefEntries == [sec : {<<>>, <<"e">>, <<"d">>}, cm : {<<>>, <<"e">>, <<"m">>}]

RefDescriptors ==
    {[DescRich EXCEPT !.refs = refs] : refs \in SeqsUpTo(RefEntries, MaxRefs)}

InitRefs ==
    \E desc \in RefDescriptors :
        Start(NameB, (NameB :> ReplyOk(desc)), [add |-> 0, remove |-> 0, tick |-> 0], 1)

NextRefs ==
    \/ \E c \in Slots : CycleSpawn(c)
    \/ \E c \in Slots : \E k \in cycles[c].pending : TaskDone(c, k)
    \/ \E c \in Slots : Publish(c)
    \/ \E c \in Slots : HandleDataMsg(c)

SpecRefs == InitRefs /\ [][NextRefs]_vars

(***************************************************************************)
(* Remote reads: the program on two targets, over clusters where the       *)
(* descriptor fetch or the pod listing of a target may fail.               *)
(***************************************************************************)
\* a found workload whose pods cannot be listed (ListPods times out)
DescPodsErr == [DescRich EXCEPT !.podsErr = TRUE]

ReadReplies == {ReplyFail, ReplyOk(DescRich), ReplyOk(DescPodsErr)}
ReadClusters == {(NameA :> ra) @@ (NameB :> rb) : ra \in ReadReplies, rb \in ReadReplies}

InitReads ==
    \E k8s \in ReadClusters :
        Start(NameB, k8s, [add |-> MaxAdds, remove |-> 0, tick |-> 0], MaxCycles)

NextReads ==
    \/ FetchNext
    \/ \E c \in Slots : HandleDataMsg(c)
    \/ \E msg \in msgs : HandleAddTargetMsg(msg)
    \/ ShortcutAdd(NameA)

SpecReads == InitReads /\ [][NextReads]_vars

(***************************************************************************)
(* Log processing.  A log text is a sequence of pieces; each piece stands  *)
(* for a fixed run of characters: a newline, a space, a word character, a  *)
(* level keyword, a brace, or the prefix kubectl --prefix puts before a    *)
(* line.  Names (of pods, of containers) are character tuples.             *)
(***************************************************************************)
MaxPieces == 4
MaxNameLen == 3

NewLine == "\n"
LevelText == "ERROR"
PrefixText == "[pod/b-0-a/c]"
PrefixPodName == <<"b", "-", "0", "-", "a">>
PrefixContainerName == <<"c">>
LogPieces == {NewLine, " ", "x", LevelText, "{", "}", PrefixText}

\* a piece made of word characters (\w) only
IsWordPiece(p) == p \in {"x", LevelText}
\* the first and the last character of a piece
FirstByte(p) == CASE p = PrefixText -> "[" [] p = LevelText -> "E" [] OTHER -> p
LastByte(p) == CASE p = PrefixText -> "]" [] p = LevelText -> "R" [] OTHER -> p

\* strings.Split(s, sep)
RECURSIVE SplitOn(_, _)
SplitOn(s, sep) ==
    IF \E i \in 1..Len(s) : s[i] = sep
    THEN LET i == CHOOSE k \in 1..Len(s) : s[k] = sep /\ \A l \in 1..(k - 1) : s[l] # sep
         IN  <<SubSeq(s, 1, i - 1)>> \o SplitOn(SubSeq(s, i + 1, Len(s)), sep)
    ELSE <<s>>

\* strings.Join(parts, sep)
RECURSIVE JoinWith(_, _)
JoinWith(parts, sep) ==
    IF parts = <<>> THEN <<>>
    ELSE IF Len(parts) = 1 THEN parts[1]
    ELSE parts[1] \o <<sep>> \o JoinWith(Tail(parts), sep)

\* the terminals a style may be rendered for: lipgloss writes no escape
\* sequence when the output has no colours
ColorProfiles == {"Ascii", "ANSI256"}

\* lipgloss.NewStyle().Foreground(color).Bold(true).Render(s)
Render(profile, color, s) ==
    IF profile = "Ascii" THEN s ELSE <<"ESC[1;38;5;", color, "m">> \o s \o <<"ESC[0m">>

\* highlight(content, "json"): chroma's terminal256 formatter
highlight(content) == <<"ESC[38;5;231m">> \o content \o <<"ESC[0m">>

podColorPalette == <<"39", "42", "220", "201", "141", "208", "51", "82", "213", "228">>

\* for _, c := range podName { hash = (hash*31 + int(c)) % len(podColorPalette) }
RECURSIVE HashUnreduced(_, _)
HashUnreduced(podName, hash) ==
    IF podName = <<>> THEN hash
    ELSE HashUnreduced(Tail(podName), hash * 31 + Code(Head(podName)))
RECURSIVE Hash(_, _)
Hash(podName, hash) ==
    IF podName = <<>> THEN hash
    ELSE Hash(Tail(podName), (hash * 31 + Code(Head(podName))) % Len(podColorPalette))

\* the index getPodColor reads the palette at
PodColorIndexUnreduced(podName) == HashUnreduced(podName, 0)
PodColorIndex(podName) ==
    LET hash == Hash(podName, 0)
    IN  (IF hash < 0 THEN 0 - hash ELSE hash) % Len(podColorPalette)

\* podColorPalette[i]: an index out of range panics
PaletteAt(i) == IF i \in 0..(Len(podColorPalette) - 1) THEN podColorPalette[i + 1] ELSE "panic"

getPodColor(podName) == PaletteAt(PodColorIndex(podName))

\* shortenPodPrefix
shortenPodPrefix(podName) ==
    LET parts == SplitOn(podName, "-")
    IN  IF Len(parts) < 3 THEN <<"[">> \o podName \o <<"]">>
        ELSE <<"[">> \o parts[Len(parts) - 1] \o <<"-">> \o parts[Len(parts)] \o <<"]">>

\* formatPodPrefix
formatPodPrefix(profile, podName) ==
    Render(profile, getPodColor(podName), <<"*", " ">> \o shortenPodPrefix(podName))

\* parseLogLine: podPrefixRegex matches a line that starts with the prefix;
\* its last group is what follows the prefix and the white space after it
parseLogLine(line) ==
    IF line # <<>> /\ Head(line) = PrefixText
    THEN [PodPrefix |-> PrefixPodName \o <<"/">> \o PrefixContainerName,
          PodName |-> PrefixPodName, LogContent |-> TrimLeft(Tail(line))]
    ELSE [PodPrefix |-> <<>>, PodName |-> <<>>, LogContent |-> line]

\* detectJSONLog
detectJSONLog(line) ==
    LET trimmed == TrimSpace(line)
    IN  /\ trimmed # <<>>
        /\ \/ FirstByte(trimmed[1]) = "{" /\ LastByte(trimmed[Len(trimmed)]) = "}"
           \/ FirstByte(trimmed[1]) = "[" /\ LastByte(trimmed[Len(trimmed)]) = "]"

\* prettyPrintJSONLog: of the texts the pieces make, json.Unmarshal accepts
\* the empty object only, with white space anywhere
prettyPrintJSONLog(line) ==
    IF SelectSeq(line, LAMBDA p : p # " ") = <<"{", "}">>
    THEN highlight(<<"{", "}">>)
    ELSE line

\* colorizeLogLevel: every level keyword between word boundaries is rendered
RECURSIVE ColorizeFrom(_, _, _)
ColorizeFrom(profile, line, i) ==
    IF i > Len(line) THEN <<>>
    ELSE LET matched == /\ line[i] = LevelText
                        /\ i = 1 \/ ~IsWordPiece(line[i - 1])
                        /\ i = Len(line) \/ ~IsWordPiece(line[i + 1])
         IN  (IF matched THEN Render(profile, "196", <<line[i]>>) ELSE <<line[i]>>)
             \o ColorizeFrom(profile, line, i + 1)
colorizeLogLevel(profile, line) == ColorizeFrom(profile, line, 1)

\* the body of the loop over the lines
FormatLine(profile, line) ==
    IF TrimSpace(line) = <<>> THEN line
    ELSE LET info == parseLogLine(line)
         IN  IF detectJSONLog(info.LogContent)
             THEN IF info.PodPrefix # <<>>
                  THEN formatPodPrefix(profile, info.PodName) \o <<" ">>
                       \o prettyPrintJSONLog(info.LogContent)
                  ELSE prettyPrintJSONLog(info.LogContent)
             ELSE IF info.PodPrefix # <<>>
                  THEN formatPodPrefix(profile, info.PodName) \o <<" ">>
                       \o colorizeLogLevel(profile, info.LogContent)
                  ELSE colorizeLogLevel(profile, line)

FormatLines(profile, content) ==
    LET lines == SplitOn(content, NewLine)
    IN  JoinWith([i \in 1..Len(lines) |-> FormatLine(profile, lines[i])], NewLine)

\* processLogContent
processLogContentAlways(content, formatMode, profile) == FormatLines(profile, content)
processLogContent(content, formatMode, profile) ==
    IF ~formatMode THEN content ELSE FormatLines(profile, content)

InitLogs ==
    /\ Beside
    /\ \E content \in SeqsUpTo(LogPieces, MaxPieces), formatMode \in BOOLEAN,
          profile \in ColorProfiles :
          calc = [fn |-> "processLogContent", pc |-> "call", content |-> content,
                  formatMode |-> formatMode, profile |-> profile, out |-> <<>>]

ProcessLog ==
    /\ calc.fn = "processLogContent" /\ calc.pc = "call"
    /\ calc' = [calc EXCEPT !.pc = "done",
                            !.out = processLogContent(calc.content, calc.formatMode,
                                                      calc.profile)]
    /\ CalcStep

NextLogs == ProcessLog

SpecLogs == InitLogs /\ [][NextLogs]_vars

\* the names getPodColor may be called with
PodNames == SeqsUpTo({"a", "b", "-", "0"}, MaxNameLen)

InitColor ==
    /\ Beside
    /\ \E podName \in PodNames :
          calc = [fn |-> "getPodColor", pc |-> "call", podName |-> podName, calls |-> 0,
                  index |-> 0, out |-> "", again |-> ""]

\* getPodColor is called: a first time, then once more with the same name
CallPodColor ==
    /\ calc.fn = "getPodColor" /\ calc.calls < 2
    /\ calc' = IF calc.calls = 0
               THEN [calc EXCEPT !.calls = 1, !.index = PodColorIndex(calc.podName),
                                 !.out = getPodColor(calc.podName)]
               ELSE [calc EXCEPT !.calls = 2, !.pc = "done",
                                 !.again = getPodColor(calc.podName)]
    /\ CalcStep

NextColor == CallPodColor

SpecColor == InitColor /\ [][NextColor]_vars

(***************************************************************************)
(* The state manager and the multi-container cache of internal/state: maps *)
(* behind a sync.RWMutex, called from goroutines.  A map is an object of   *)
(* objs and a field holds the id of its map, so that a returned map may or *)
(* may not be the map of the field.  mu is the mutex: the goroutine that   *)
(* holds it for writing (0 for none) and those that hold it for reading.   *)
(* A goroutine waits at "lock", runs the statements of the method one at a *)
(* time at "body" and runs the deferred unlock at "unlock".  Go's RWMutex  *)
(* also keeps new readers out while a writer waits; that removes           *)
(* interleavings and adds none, and is left out.                           *)
(***************************************************************************)
MaxCalls == 3
Goroutines == {1, 2}
StoredNames == {NameA, NameB}
StoredValues == {<<"1">>, <<"2">>}
MergeUpdates == {(NameA :> <<"1">>) @@ (NameB :> <<"1">>), (NameB :> <<"2">>)}

\* the zero value a missing key reads as: "" in the Manager, false in the cache
ZeroOf(kind) == IF kind = "Manager" THEN <<>> ELSE FALSE
NoValue == [value |-> <<>>, ok |-> FALSE]
CallOf(op, d, v, u) == [op |-> op, d |-> d, v |-> v, u |-> u]
NoCall == CallOf("", <<>>, <<>>, EmptyMap)

ManagerCalls ==
    {CallOf(op, d, <<>>, EmptyMap) :
        op \in {"GetSelector", "GetHelmRelease", "DeleteDeployment"}, d \in StoredNames}
    \cup {CallOf(op, d, v, EmptyMap) :
            op \in {"SetSelector", "SetHelmRelease"}, d \in StoredNames, v \in StoredValues}
    \cup {CallOf(op, <<>>, <<>>, u) :
            op \in {"MergeSelectors", "MergeHelmReleases"}, u \in MergeUpdates}
    \cup {CallOf(op, <<>>, <<>>, EmptyMap) :
            op \in {"GetAllSelectors", "GetAllHelmReleases", "Clear"}}

CacheCalls ==
    {CallOf("Get", d, FALSE, EmptyMap) : d \in StoredNames}
    \cup {CallOf("Set", d, v, EmptyMap) : d \in StoredNames, v \in BOOLEAN}
    \cup {CallOf(op, <<>>, FALSE, EmptyMap) : op \in {"Clear", "Size"}}

CallsOfKind(kind) == IF kind = "Manager" THEN ManagerCalls ELSE CacheCalls

\* the methods that take mu.RLock() and those that take mu.Lock()
ReadOps == {"GetSelector", "GetHelmRelease", "GetAllSelectors", "GetAllHelmReleases",
            "Get", "Size"}
WriteOps == {"SetSelector", "SetHelmRelease", "MergeSelectors", "MergeHelmReleases",
             "DeleteDeployment", "Clear", "Set"}

\* the field a method reads or writes (DeleteDeployment and Clear: all of them)
FieldOf(op) ==
    CASE op \in {"GetSelector", "GetAllSelectors", "SetSelector", "MergeSelectors"}
            -> "selectors"
      [] op \in {"GetHelmRelease", "GetAllHelmReleases", "SetHelmRelease",
                 "MergeHelmReleases"} -> "helmReleases"
      [] op \in {"Get", "Set", "Size"} -> "cache"

\* sync.RWMutex: RLock waits for the writer, Lock for the writer and the readers
CanRLock(mu) == mu.writer = 0
CanLockAmongReaders(mu) == mu.writer = 0
CanLock(mu) == mu.writer = 0 /\ mu.readers = {}
RLock(mu, p) == [mu EXCEPT !.readers = @ \cup {p}]
Lock(mu, p) == [mu EXCEPT !.writer = p]
RUnlockDeferred(mu, p) == mu
RUnlock(mu, p) == [mu EXCEPT !.readers = @ \ {p}]
Unlock(mu, p) == [mu EXCEPT !.writer = 0]
Held(mu, p) == mu.writer = p \/ p \in mu.readers

\* make(map[string]string): a map that is no other map
FreshId(objs) == CHOOSE id \in 1..(Cardinality(DOMAIN objs) + 1) : id \notin DOMAIN objs

\* the map GetAllSelectors and GetAllHelmReleases fill and return
CopiedMapAliased(mgr, field) == mgr.fields[field]
CopiedMap(mgr, field) == FreshId(mgr.objs)

\* the map of a field
MapOf(mgr, field) == mgr.objs[mgr.fields[field]]

\* the maps that can still be reached: those of the fields and those the
\* goroutines hold
Sweep(mgr, prs) ==
    LET live == {mgr.fields[f] : f \in DOMAIN mgr.fields}
                \cup {prs[p].snap : p \in DOMAIN prs} \cup {prs[p].copied : p \in DOMAIN prs}
    IN  [mgr EXCEPT !.objs = [id \in (DOMAIN mgr.objs) \cap live |-> mgr.objs[id]]]

\* DeleteDeployment's statement i
DeleteDeploymentSelectorsOnly(mgr, d, i) ==
    IF i = 1
    THEN [mgr EXCEPT !.objs[mgr.fields["selectors"]] = Delete(@, d)]
    ELSE mgr
DeleteDeploymentStep(mgr, d, i) ==
    IF i = 1
    THEN [mgr EXCEPT !.objs[mgr.fields["selectors"]] = Delete(@, d)]
    ELSE [mgr EXCEPT !.objs[mgr.fields["helmReleases"]] = Delete(@, d)]

\* Clear's statement on one field: the field gets a new, empty map
ClearField(mgr, field) ==
    LET id == FreshId(mgr.objs)
    IN  [mgr EXCEPT !.objs = (id :> EmptyMap) @@ @, !.fields[field] = id]

NewManager ==
    [kind |-> "Manager", mu |-> [writer |-> 0, readers |-> {}],
     fields |-> [selectors |-> 1, helmReleases |-> 2],
     objs |-> (1 :> EmptyMap) @@ (2 :> EmptyMap), calls |-> 0]
NewMultiContainerCache ==
    [kind |-> "MultiContainerCache", mu |-> [writer |-> 0, readers |-> {}],
     fields |-> [cache |-> 1], objs |-> (1 :> EmptyMap), calls |-> 0]

Idle ==
    [pc |-> "idle", call |-> NoCall, i |-> 0, todo |-> {}, ret |-> NoValue, copied |-> 0,
     snap |-> 0, last |-> NoCall]

ManagerStep ==
    UNCHANGED <<Deployment, cluster, heap, targets, selectors, helmReleases, items, cursor,
                err, msgs, cycles, budget, removed, rt, shownUnjoined, command, calc, ui>>

InitManager ==
    /\ Program(NameB, (NameB :> ReplyOk(DescRich)), [add |-> 0, remove |-> 0, tick |-> 0], 1)
    /\ calc = NoCalc
    /\ manager \in {NewManager, NewMultiContainerCache}
    /\ procs = [p \in Goroutines |-> Idle]
    /\ ui = initialModel(0)

\* a goroutine calls a method
CallMethod(p, c) ==
    /\ procs[p].pc = "idle"
    /\ manager.calls < MaxCalls
    /\ manager' = [manager EXCEPT !.calls = @ + 1]
    /\ procs' = [procs EXCEPT ![p].pc = "lock", ![p].call = c, ![p].ret = NoValue]
    /\ ManagerStep

\* m.mu.RLock() or m.mu.Lock() returns
Acquire(p) ==
    /\ procs[p].pc = "lock"
    /\ IF procs[p].call.op \in ReadOps
       THEN /\ CanRLock(manager.mu)
            /\ manager' = [manager EXCEPT !.mu = RLock(@, p)]
       ELSE /\ CanLock(manager.mu)
            /\ manager' = [manager EXCEPT !.mu = Lock(@, p)]
    /\ procs' = [procs EXCEPT ![p].pc = "body", ![p].i = 1,
                              ![p].todo = DOMAIN procs[p].call.u]
    /\ ManagerStep

\* selector, ok := m.selectors[deployment], and the like; len(c.cache)
ReadBody(p) ==
    LET c == procs[p].call
        m == MapOf(manager, FieldOf(c.op))
    IN  /\ procs[p].pc = "body"
        /\ c.op \in {"GetSelector", "GetHelmRelease", "Get", "Size"}
        /\ procs' = [procs EXCEPT
                        ![p].pc = "unlock",
                        ![p].ret = IF c.op = "Size"
                                   THEN [value |-> Cardinality(DOMAIN m), ok |-> TRUE]
                                   ELSE IF c.d \in DOMAIN m
                                        THEN [value |-> m[c.d], ok |-> TRUE]
                                        ELSE [value |-> ZeroOf(manager.kind), ok |-> FALSE]]
        /\ UNCHANGED manager
        /\ ManagerStep

\* m.selectors[deployment] = selector, and the like
SetBody(p) ==
    LET c == procs[p].call
    IN  /\ procs[p].pc = "body"
        /\ c.op \in {"SetSelector", "SetHelmRelease", "Set"}
        /\ manager' = [manager EXCEPT !.objs[manager.fields[FieldOf(c.op)]] = Put(@, c.d, c.v)]
        /\ procs' = [procs EXCEPT ![p].pc = "unlock"]
        /\ ManagerStep

\* for k, v := range updates { m.selectors[k] = v }: one turn of the loop, in
\* the order the map yields its keys
MergeBody(p) ==
    LET c == procs[p].call
    IN  /\ procs[p].pc = "body"
        /\ c.op \in {"MergeSelectors", "MergeHelmReleases"}
        /\ IF procs[p].todo = {}
           THEN /\ procs' = [procs EXCEPT ![p].pc = "unlock"]
                /\ UNCHANGED manager
           ELSE \E k \in procs[p].todo :
                   /\ manager' = [manager EXCEPT
                                     !.objs[manager.fields[FieldOf(c.op)]] = Put(@, k, c.u[k])]
                   /\ procs' = [procs EXCEPT ![p].todo = @ \ {k}]
        /\ ManagerStep

\* delete(m.selectors, deployment); delete(m.helmReleases, deployment)
DeleteBody(p) ==
    /\ procs[p].pc = "body"
    /\ procs[p].call.op = "DeleteDeployment"
    /\ manager' = DeleteDeploymentStep(manager, procs[p].call.d, procs[p].i)
    /\ procs' = [procs EXCEPT ![p].i = @ + 1, ![p].pc = IF procs[p].i = 2 THEN "unlock" ELSE @]
    /\ ManagerStep

\* m.selectors = make(...); m.helmReleases = make(...), or c.cache = make(...)
ClearBody(p) ==
    LET fs == IF manager.kind = "Manager" THEN <<"selectors", "helmReleases">>
              ELSE <<"cache">>
        prs == [procs EXCEPT ![p].i = @ + 1,
                             ![p].pc = IF procs[p].i = Len(fs) THEN "unlock" ELSE @]
    IN  /\ procs[p].pc = "body"
        /\ procs[p].call.op = "Clear"
        /\ procs' = prs
        /\ manager' = Sweep(ClearField(manager, fs[procs[p].i]), prs)
        /\ ManagerStep

\* copied := make(...); for k, v := range m.selectors { copied[k] = v };
\* return copied
CopyBody(p) ==
    LET c == procs[p].call
        field == FieldOf(c.op)
    IN  /\ procs[p].pc = "body"
        /\ c.op \in {"GetAllSelectors", "GetAllHelmReleases"}
        /\ IF procs[p].copied = 0
           THEN LET id == CopiedMap(manager, field)
                IN  /\ manager' = [manager EXCEPT !.objs = @ @@ (id :> EmptyMap)]
                    /\ procs' = [procs EXCEPT ![p].copied = id,
                                              ![p].todo = DOMAIN MapOf(manager, field)]
           ELSE IF procs[p].todo = {}
           THEN /\ procs' = [procs EXCEPT ![p].pc = "unlock"]
                /\ UNCHANGED manager
           ELSE \E k \in procs[p].todo :
                   /\ manager' = [manager EXCEPT
                                     !.objs[procs[p].copied] = Put(@, k, MapOf(manager, field)[k])]
                   /\ procs' = [procs EXCEPT ![p].todo = @ \ {k}]
        /\ ManagerStep

\* the deferred m.mu.RUnlock() or m.mu.Unlock(), and the return: the caller
\* keeps the map a GetAll method returned in place of the one it had
Release(p) ==
    LET c == procs[p].call
        prs == [procs EXCEPT
                   ![p].pc = "idle", ![p].i = 0, ![p].todo = {}, ![p].copied = 0,
                   ![p].snap = IF procs[p].copied # 0 THEN procs[p].copied ELSE @,
                   ![p].last = IF c.op \in WriteOps THEN c ELSE @]
    IN  /\ procs[p].pc = "unlock"
        /\ procs' = prs
        /\ manager' = Sweep([manager EXCEPT
                                  !.mu = IF c.op \in ReadOps THEN RUnlock(@, p)
                                         ELSE Unlock(@, p)], prs)
        /\ ManagerStep

\* the caller writes to the map a GetAll method returned
CallerWrite(p, k, v) ==
    /\ procs[p].pc = "idle"
    /\ procs[p].snap # 0
    /\ manager.calls < MaxCalls
    /\ manager' = [manager EXCEPT !.calls = @ + 1, !.objs[procs[p].snap] = Put(@, k, v)]
    /\ UNCHANGED procs
    /\ ManagerStep

NextManager ==
    \E p \in Goroutines :
        \/ \E c \in CallsOfKind(manager.kind) : CallMethod(p, c)
        \/ Acquire(p)
        \/ ReadBody(p)
        \/ SetBody(p)
        \/ MergeBody(p)
        \/ DeleteBody(p)
        \/ ClearBody(p)
        \/ CopyBody(p)
        \/ Release(p)
        \/ \E k \in StoredNames, v \in StoredValues : CallerWrite(p, k, v)

SpecManager == InitManager /\ [][NextManager]_vars

(***************************************************************************)
(* detectMultiContainer, run by the goroutines of the detail commands on   *)
(* the model's one multiContainerCache.  A goroutine is at "remote" when   *)
(* it is about to call client.GetPodContainers and at "remoting" while the *)
(* call is in progress.                                                    *)
(***************************************************************************)
NewCache ==
    [kind |-> "multiContainerCache", mu |-> [writer |-> 0, readers |-> {}],
     fields |-> [cache |-> 1], objs |-> (1 :> EmptyMap), calls |-> 0]

InitDetect ==
    /\ Program(NameB, (NameB :> ReplyOk(DescRich)), [add |-> 0, remove |-> 0, tick |-> 0], 1)
    /\ calc = NoCalc
    /\ manager = NewCache
    /\ ui = initialModel(0)
    /\ procs = [p \in Goroutines |->
                  [Idle EXCEPT !.ret = [value |-> FALSE, ok |-> FALSE],
                               !.last = CallOf("", <<>>, FALSE, EmptyMap)]]

\* what the detections of podName that have returned without an error gave
\* their callers, each goroutine's last one
Detected(prs, podName) ==
    {prs[q].last.v : q \in {r \in DOMAIN prs : /\ prs[r].last.op = "detectMultiContainer"
                                                /\ prs[r].last.d = podName}}

\* a detail command calls detectMultiContainer(podName, cache); todo keeps
\* what the earlier detections of podName gave
CallDetect(p, podName) ==
    /\ procs[p].pc = "idle"
    /\ manager.calls < MaxCalls
    /\ manager' = [manager EXCEPT !.calls = @ + 1]
    /\ procs' = [procs EXCEPT ![p].pc = "rlock",
                              ![p].call = CallOf("detectMultiContainer", podName, FALSE, EmptyMap),
                              ![p].todo = Detected(procs, podName),
                              ![p].ret = [value |-> FALSE, ok |-> FALSE]]
    /\ ManagerStep

\* cache.mu.RLock()
DetectRLock(p) ==
    /\ procs[p].pc = "rlock"
    /\ CanRLock(manager.mu)
    /\ manager' = [manager EXCEPT !.mu = RLock(@, p)]
    /\ procs' = [procs EXCEPT ![p].pc = "check"]
    /\ ManagerStep

\* if result, exists := cache.cache[podName]; exists
DetectCheck(p) ==
    LET m == MapOf(manager, "cache")
        podName == procs[p].call.d
    IN  /\ procs[p].pc = "check"
        /\ procs' = IF podName \in DOMAIN m
                    THEN [procs EXCEPT ![p].pc = "hit", ![p].ret = [value |-> m[podName], ok |-> TRUE]]
                    ELSE [procs EXCEPT ![p].pc = "miss"]
        /\ UNCHANGED manager
        /\ ManagerStep

\* cache.mu.RUnlock(), then return result, nil if the pod was in the cache
DetectRUnlock(p) ==
    /\ procs[p].pc \in {"hit", "miss"}
    /\ manager' = [manager EXCEPT !.mu = RUnlock(@, p)]
    /\ procs' = IF procs[p].pc = "hit"
                THEN [procs EXCEPT ![p].pc = "idle",
                                   ![p].last = [procs[p].call EXCEPT !.v = procs[p].ret.value]]
                ELSE [procs EXCEPT ![p].pc = "remote"]
    /\ ManagerStep

\* client.GetPodContainers(ctx, Namespace, podName) is called
RemoteStart(p) ==
    /\ procs[p].pc = "remote"
    /\ procs' = [procs EXCEPT ![p].pc = "remoting"]
    /\ UNCHANGED manager
    /\ ManagerStep

\* the call returns n container names, or an error: return false, err, or
\* isMulti := len(containerNames) > 1
RemoteReturn(p, n, failed) ==
    /\ procs[p].pc = "remoting"
    /\ procs' = IF failed
                THEN [procs EXCEPT ![p].pc = "idle", ![p].ret = [value |-> FALSE, ok |-> FALSE]]
                ELSE [procs EXCEPT ![p].pc = "wlock", ![p].ret = [value |-> n > 1, ok |-> TRUE]]
    /\ UNCHANGED manager
    /\ ManagerStep

\* cache.mu.Lock()
DetectLock(p) ==
    /\ procs[p].pc = "wlock"
    /\ CanLock(manager.mu)
    /\ manager' = [manager EXCEPT !.mu = Lock(@, p)]
    /\ procs' = [procs EXCEPT ![p].pc = "store"]
    /\ ManagerStep

\* cache.cache[podName] = isMulti
DetectStore(p) ==
    /\ procs[p].pc = "store"
    /\ manager' = [manager EXCEPT
                      !.objs[manager.fields["cache"]] = Put(@, procs[p].call.d, procs[p].ret.value)]
    /\ procs' = [procs EXCEPT ![p].pc = "wunlock"]
    /\ ManagerStep

\* cache.mu.Unlock(); return isMulti, nil
DetectUnlock(p) ==
    /\ procs[p].pc = "wunlock"
    /\ manager' = [manager EXCEPT !.mu = Unlock(@, p)]
    /\ procs' = [procs EXCEPT ![p].pc = "idle",
                              ![p].last = [procs[p].call EXCEPT !.v = procs[p].ret.value]]
    /\ ManagerStep

NextDetect ==
    \E p \in Goroutines :
        \/ \E podName \in StoredNames : CallDetect(p, podName)
        \/ DetectRLock(p)
        \/ DetectCheck(p)
        \/ DetectRUnlock(p)
        \/ RemoteStart(p)
        \/ \E n \in 0..MaxContainers, failed \in BOOLEAN : RemoteReturn(p, n, failed)
        \/ DetectLock(p)
        \/ DetectStore(p)
        \/ DetectUnlock(p)

SpecDetect == InitDetect /\ [][NextDetect]_vars

(***************************************************************************)
(* model.Update: the keys of the normal mode and the window size.          *)
(***************************************************************************)
\* what the keys of the normal mode leave alone
behind == <<Deployment, cluster, heap, targets, selectors, helmReleases, items, err, msgs,
            budget, removed, rt, shownUnjoined>>

\* a handler that does not assign m.partialKey
KeptKey(u) == [u EXCEPT !.between = @ \/ u.partialKey = "r"]
\* m.partialKey = ""
ClearedKey(u) == [u EXCEPT !.partialKey = "", !.between = FALSE]

\* case "r"
KeyR ==
    LET deploymentName == getCurrentDeploymentName(items, cursor)
    IN  /\ IF ui.partialKey = "r"
           THEN /\ ui' = ClearedKey(ui)
                /\ IF deploymentName # <<>>
                   THEN /\ command.pc = "none"
                        /\ command' =
                              [command EXCEPT
                                  !.pc = "queued", !.path = "rr", !.typed = <<"r", "r">>,
                                  !.cached = getCurrentHelmRelease(items, cursor, helmReleases),
                                  !.input = RestartWord,
                                  !.helmRelease = getCurrentHelmRelease(items, cursor, helmReleases),
                                  !.deploymentName = deploymentName]
                   ELSE UNCHANGED command
           ELSE /\ ui' = [ui EXCEPT !.partialKey = "r", !.between = FALSE]
                /\ UNCHANGED command
        /\ UNCHANGED <<apart, behind, cycles, cursor>>

\* case "f"
KeyF ==
    /\ ui' = [ClearedKey(ui) EXCEPT !.logFormatMode = ~@]
    /\ UNCHANGED <<apart, behind, cycles, cursor, command>>

\* case "y" and default
KeyOther ==
    /\ ui' = ClearedKey(ui)
    /\ UNCHANGED <<apart, behind, cycles, cursor, command>>

\* the viewport keys: ctrl+d, ctrl+u, ctrl+e, ctrl+y, pgdown, pgup
KeyScroll ==
    /\ ui' = KeptKey(ui)
    /\ UNCHANGED <<apart, behind, cycles, cursor, command>>

\* const DeploymentTabCount, PodTabCount
DeploymentTabCount == 3
PodTabCount == 2

\* case "tab"
KeyTab ==
    /\ Len(items) > 0
    /\ LET curr == items[cursor + 1]
           tab == IF curr.Type = "DEP" THEN (ui.activeTab + 1) % DeploymentTabCount
                  ELSE IF curr.Type = "POD" THEN (ui.activeTab + 1) % PodTabCount
                  ELSE 0
       IN  ui' = fetchDetailsCmd([KeptKey(ui) EXCEPT !.activeTab = tab], curr, tab)
    /\ UNCHANGED <<apart, behind, cycles, cursor, command>>

\* case "enter"
KeyEnter ==
    /\ Len(items) > 0
    /\ ui' = fetchDetailsCmd(KeptKey(ui), items[cursor + 1], ui.activeTab)
    /\ UNCHANGED <<apart, behind, cycles, cursor, command>>

\* case "ctrl+f"
KeyCtrlF ==
    /\ FreeSlots(cycles) # {}
    /\ cycles' = StartCycle(cycles, heap, targets)
    /\ ui' = Started(KeptKey(ui), NextSlot(cycles))
    /\ UNCHANGED <<apart, behind, cursor, command>>

\* the types the keys "1" to "5" jump to
JumpTypes == {"DEP", "HELM", "CM", "SEC", "POD"}

\* the two search loops of the quick jump: forward from start, then from 0
FoundFrom(its, start, target) ==
    LET hit(i) == its[i + 1].Type = target
        fwd == {i \in start..(Len(its) - 1) : hit(i)}
        wrap == {i \in 0..(start - 1) : hit(i)}
    IN  IF fwd # {} THEN CHOOSE i \in fwd : \A k \in fwd : i <= k
        ELSE IF wrap # {} THEN CHOOSE i \in wrap : \A k \in wrap : i <= k
        ELSE -1

\* the scroll adjustment of the quick jump
ScrolledTo(u, cur) ==
    IF cur < u.listOffset THEN cur
    ELSE IF cur >= u.listOffset + u.listHeight THEN cur - u.listHeight + 1
    ELSE u.listOffset

\* case "1", "2", "3", "4", "5"
QuickJump(target) ==
    LET start == IF Len(items) > 0 /\ items[cursor + 1].Type = target THEN cursor + 1 ELSE 0
        found == FoundFrom(items, start, target)
    IN  /\ cursor' = IF found # -1 THEN found ELSE cursor
        /\ ui' = IF found # -1
                 THEN fetchDetailsCmd([ClearedKey(ui) EXCEPT !.listOffset = ScrolledTo(ui, found),
                                                             !.activeTab = 0],
                                      items[found + 1], 0)
                 ELSE ClearedKey(ui)
        /\ UNCHANGED <<apart, behind, cycles, command>>

\* case tea.WindowSizeMsg: m.listHeight = maxInt(msg.Height - ..., 1)
WindowSizeMsg(height) ==
    LET h == height - HeaderHeight - FooterHeight - UILayoutPadding
    IN  /\ ui' = [ui EXCEPT !.listHeight = IF h > 1 THEN h ELSE 1]
        /\ UNCHANGED <<apart, behind, cycles, cursor, command>>

(***************************************************************************)
(* The keys on two targets: the program started on "b", "a" is added, and  *)
(* one target is removed, with the keys of the normal mode and the restart *)
(* of "rr" followed to its messages.                                       *)
(***************************************************************************)
InitKeys ==
    /\ \E k8s \in Clusters : Program(NameB, k8s, [add |-> 1, remove |-> 1, tick |-> 0], 1)
    /\ calc = NoCalc
    /\ manager = NoManager
    /\ procs = NoProcs
    /\ ui = initialModel(0)

NextKeys ==
    \/ \E c \in Slots : CycleSpawn(c)
    \/ \E c \in Slots : \E k \in cycles[c].pending : TaskDone(c, k)
    \/ \E c \in Slots : SortWrite1(c)
    \/ \E c \in Slots : SortWrite2(c)
    \/ \E c \in Slots : Publish(c)
    \/ \E c \in Slots : HandleDataMsg(c)
    \/ \E msg \in msgs : HandleAddTargetMsg(msg)
    \/ \E msg \in msgs : HandleRemoveTargetMsg(msg)
    \/ ShortcutAdd(NameA)
    \/ \E input \in {NameA, NameB} : ShortcutRemove(input)
    \/ CursorDown
    \/ CursorUp
    \/ KeyR
    \/ KeyF
    \/ KeyOther
    \/ KeyScroll
    \/ \E target \in JumpTypes : QuickJump(target)
    \/ \E remoteErr \in RemoteErrs : Execute(remoteErr)
    \/ HandleCommandFinishedMsg
    \/ HandleDetailsMsg

SpecKeys == InitKeys /\ [][NextKeys]_vars

(***************************************************************************)
(* The detail commands and the list window: the program on one target,     *)
(* with the keys that move the cursor or change the tab, the window size,  *)
(* and each fetchDetailsCmd followed to its detailsMsg.                    *)
(***************************************************************************)
\* fetchDetailsCmd's closure for a request: isYaml of its detailsMsg when no
\* remote call failed
YamlFor(req) ==
    \/ req.Type \in {"SEC", "CM"}
    \/ req.Type = "DEP" /\ req.tab \notin {1, 2}
    \/ req.Type = "POD" /\ req.tab # 1
\* the closure can return detailsMsg{err: ...}: not for a header, which
\* makes no remote call
CanFail(req) == req.Type # "HDR"

\* case detailsMsg, for the message of the detail command of req
HandleFetchedDetails(req, failed) ==
    /\ req \in ui.details
    /\ failed => CanFail(req)
    /\ ui' = [ui EXCEPT
                 !.details = @ \ {req},
                 !.shown = IF failed THEN Shown(req, "err", FALSE)
                           ELSE IF YamlFor(req) THEN Shown(req, "yaml", FALSE)
                           ELSE Shown(req, "text", isLogContent(items, cursor, ui.activeTab))]
    /\ UNCHANGED <<apart, behind, cycles, cursor, command>>

\* the detail commands one run follows
MaxDetails == 2
\* the terminal heights of the window size messages
Heights == {7, 8, 9}

InitView ==
    /\ Program(NameB, (NameB :> ReplyOk(DescRich)), [add |-> 0, remove |-> 0, tick |-> 0], 2)
    /\ calc = NoCalc
    /\ manager = NoManager
    /\ procs = NoProcs
    /\ ui = initialModel(MaxDetails)

NextView ==
    \/ \E c \in Slots : CycleSpawn(c)
    \/ \E c \in Slots : \E k \in cycles[c].pending : TaskDone(c, k)
    \/ \E c \in Slots : Publish(c)
    \/ \E c \in Slots : HandleDataMsg(c)
    \/ CursorDown
    \/ CursorUp
    \/ KeyTab
    \/ KeyEnter
    \/ \E target \in JumpTypes : QuickJump(target)
    \/ \E height \in Heights : WindowSizeMsg(height)
    \/ \E req \in ui.details, failed \in BOOLEAN : HandleFetchedDetails(req, failed)

SpecView == InitView /\ [][NextView]_vars

(***************************************************************************)
(* The tick timers: the program on one target, with the ticks, the manual  *)
(* refresh of ctrl+f and the ":fetch" command followed to its messages.    *)
(***************************************************************************)
InitTicks ==
    Start(NameB, (NameB :> ReplyOk(DescPlain)),
          [add |-> 0, remove |-> 0, tick |-> MaxRefreshes], MaxCycles)

NextTicks ==
    \/ \E c \in Slots : CycleSpawn(c)
    \/ \E c \in Slots : \E k \in cycles[c].pending : TaskDone(c, k)
    \/ \E c \in Slots : Publish(c)
    \/ \E c \in Slots : HandleDataMsg(c)
    \/ Tick
    \/ KeyCtrlF
    \/ CommandRun(FetchWord)
    \/ Execute(NoCause)
    \/ HandleDetailsMsg
    \/ HandleCommandFinishedMsg
    \/ HandleTickCmd

SpecTicks == InitTicks /\ [][NextTicks]_vars

(***************************************************************************)
(* Properties.                                                             *)
(***************************************************************************)
Distinct(seq) == Cardinality(Range(seq)) = Len(seq)
SameItem(x, y) == x.Type = y.Type /\ x.Name = y.Name /\ x.Status = y.Status
SameItems(xs, ys) == Len(xs) = Len(ys) /\ \A i \in 1..Len(xs) : SameItem(xs[i], ys[i])
\* sub occurs in its as a run of consecutive items
Contains(its, sub) ==
    \E k \in 0..(Len(its) - Len(sub)) : \A i \in 1..Len(sub) : SameItem(its[k + i], sub[i])
\* the names of a set in lexicographic (byte) order
RECURSIVE LexOrder(_)
LexOrder(names) ==
    IF names = {} THEN <<>>
    ELSE LET n == CHOOSE x \in names : \A y \in names : x = y \/ StrLess(x, y)
         IN  <<n>> \o LexOrder(names \ {n})
Headers(its) == SelectSeq(its, LAMBDA it : it.Type = "HDR")
IsHeaderOf(it, tName) == it.Name \in {HdrName(tName), HdrErrName(tName)}
\* a cycle that has returned its dataMsg, created on a proper Target Set
Returned(cy) == cy.pc = "done" /\ Len(cy.T0) >= 1 /\ Distinct(cy.T0)
Failed(tName) == GetDeployment(cluster, tName).err
\* the list a cycle over the target names T is to return
RECURSIVE ExpectedItems(_)
ExpectedItems(names) ==
    IF names = <<>> THEN <<>>
    ELSE TaskItems(Head(names), GetDeployment(cluster, Head(names)))
         \o ExpectedItems(Tail(names))
\* a step of the fetch cycle in slot c
CycleStep(c) ==
    \/ CycleSpawn(c)
    \/ \E k \in cycles[c].pending : TaskDone(c, k)
    \/ SortWrite1(c)
    \/ SortWrite2(c)
    \/ Publish(c)
CachedNames == (DOMAIN selectors) \cup (DOMAIN helmReleases)

\* C1: the list a fetch cycle over the Target Set T returns has exactly one
\* Header per member of T, and the Headers are in the lexicographic order of
\* the target names, whatever the order in which the tasks completed.
C1_OneHeaderPerTargetInOrder ==
    \A c \in Slots :
        Returned(cycles[c]) =>
            LET hs == Headers(cycles[c].items)
                names == LexOrder(Range(cycles[c].T0))
            IN  /\ Len(hs) = Len(names)
                /\ \A i \in 1..Len(hs) : IsHeaderOf(hs[i], names[i])

\* C2: when the descriptor fetch of some target fails, the returned list holds
\* for that target its error Header only, and for every other target exactly
\* the items it contributes when no target fails.
C2_FailureIsolated ==
    \A c \in Slots :
        (Returned(cycles[c]) /\ \E t \in Range(cycles[c].T0) : Failed(t)) =>
            SameItems(cycles[c].items, ExpectedItems(LexOrder(Range(cycles[c].T0))))

\* C3: when the dataMsg of a cycle in which one target failed and another
\* succeeded is applied, m.items afterwards is not empty and contains the
\* cycle's items of every target that succeeded.
C3_PartialFailureShown ==
    [][\A c \in Slots :
          (/\ cycles[c].pc = "done"
           /\ \E t \in Range(cycles[c].spawned) : Failed(t)
           /\ \E u \in Range(cycles[c].spawned) : ~Failed(u)
           /\ HandleDataMsg(c)) =>
              /\ items' # <<>>
              /\ \A u \in Range(cycles[c].spawned) :
                    ~Failed(u) => Contains(items', cycles[c].targetItems[u])]_vars

\* C4: a cycle returns its dataMsg only after every task it spawned has stored
\* its sub-list: from the join on no task is pending, every spawned target has
\* its entry in targetItems, and m.items never comes from an unjoined cycle.
C4_PublishAfterJoin ==
    /\ \A c \in Slots :
          cycles[c].pc \in {"sort", "swap", "done"} =>
              /\ cycles[c].pending = {}
              /\ Range(cycles[c].spawned) \subseteq DOMAIN cycles[c].targetItems
    /\ ~shownUnjoined

\* a cycle over two targets has joined both tasks and returned its dataMsg
C4_Witness ==
    \E c \in Slots :
        /\ cycles[c].pc = "done"
        /\ Len(cycles[c].spawned) >= 2
        /\ Cardinality(DOMAIN cycles[c].targetItems) >= 2

\* C5: the Target Set has at least one member after every sequence of adds
\* and removes, in every order of delivery of their messages.
C5_AtLeastOneTarget == Len(Targets) >= 1

\* C6: no step of a fetch cycle changes the content or the order of
\* m.targets, and the sequence a cycle works on is changed by no add, remove
\* or other cycle.
C6_CycleOwnsItsTargets ==
    [][/\ (\E c \in Slots : CycleStep(c)) => Targets' = Targets
       /\ \A c \in Slots :
             (cycles[c].pc # "idle" /\ cycles'[c].pc # "idle" /\ ~CycleStep(c)) =>
                 SliceOf(heap', cycles'[c]) = SliceOf(heap, cycles[c])]_vars

\* C7: from the removal of a target until it is added again, neither
\* m.selectors nor m.helmReleases has an entry for it, also when a cycle that
\* was started before the removal delivers after it.
C7_NoCacheOfRemoved == removed \cap CachedNames = {}

\* C8: when the removal of x is handled right after the add of x, with no
\* dataMsg and no other add or remove handled in between, the Target Set has
\* the members it had before the add, and no cache has an entry for x.
C8_AddRemoveRoundTrip ==
    [][\A msg \in msgs :
          (/\ rt.phase = "added"
           /\ msg = [type |-> "remove", name |-> rt.x]
           /\ HandleRemoveTargetMsg(msg)) =>
              /\ Range(Targets') = rt.before
              /\ rt.x \notin (DOMAIN selectors') \cup (DOMAIN helmReleases')]_vars

\* C9: the Target Set never holds a name twice (read while no exchange of a
\* sort is half done on its array).
C9_NoDuplicateTarget == Stable => Distinct(Targets)

\* C10: every name that entered the Target Set through an add (every member
\* but the start-up Deployment) satisfies the naming rules.
C10_AddedNamesValid ==
    \A n \in Range(Targets) : n = Deployment \/ isValidK8sName(n)

\* the calls of one remote function that the command made
CallsOf(fn) == {i \in DOMAIN command.calls : command.calls[i].fn = fn}

\* C11: every call of ScaleDeployment names a resolved workload and carries a
\* replica count that is a positive integer
C11_ScaleOnlyPositive ==
    \A i \in CallsOf("ScaleDeployment") :
        command.calls[i].name # <<>> /\ command.calls[i].n > 0

\* a rollback was requested, at the prompt of 'R' or as ":rollback ..."
IsRollback ==
    \/ command.path = "rollback"
    \/ /\ command.path = "line" /\ Fields(command.typed) # <<>>
       /\ Fields(command.typed)[1] = RollbackWord
\* Update or the closure has answered the command
Answered == command.pc \in {"rejected", "returned", "handled"}
\* the answer is the error of a missing release
NoReleaseError ==
    \/ command.pc = "rejected"
       /\ command.rawContent.format = "No Helm release found for current deployment"
    \/ command.pc \in {"returned", "handled"}
       /\ command.ret = <<DetailsErr(Text("No Helm release associated.", <<>>, ""))>>
\* the answer is an error
AnyError ==
    \/ command.pc = "rejected"
    \/ command.pc \in {"returned", "handled"}
       /\ Len(command.ret) = 1 /\ command.ret[1].type = "detailsMsg"
       /\ command.ret[1].err # NoText

C13_RollbackOnlyPositive ==
    \A i \in CallsOf("RollbackHelm") : command.calls[i].n > 0

\* the closure has run and made a remote call
Called == command.pc \in {"returned", "handled"} /\ command.calls # <<>>
\* a step of Update that takes a commandFinishedMsg of the command
TakesFinished ==
    /\ command.pending # <<>>
    /\ Head(command.pending).type = "commandFinishedMsg"
    /\ command'.pending = Tail(command.pending)
\* a fetch cycle is created in a free slot
StartsCycle == \E c \in Slots : cycles[c].pc = "idle" /\ cycles'[c].pc = "new"

\* C14: a scale, restart or rollback command makes at most one remote call;
\* when the call succeeds the closure returns one commandFinishedMsg and
\* nothing else, and Update starts a fetch cycle when it takes it; when the
\* call fails the closure returns one error message that carries the cause
\* and no commandFinishedMsg
C14_OneCallOneOutcome ==
    /\ [](Len(command.calls) <= 1)
    /\ []((Called /\ command.answer = NoCause) => command.ret = <<CommandFinishedMsg>>)
    /\ []((Called /\ command.answer # NoCause) =>
            /\ Len(command.ret) = 1
            /\ command.ret[1].type = "detailsMsg"
            /\ command.ret[1].err.cause = command.answer)
    /\ [][TakesFinished => StartsCycle]_vars

\* a command whose remote call succeeded has been handled and its fetch
\* cycle waits to run
C14_Witness ==
    /\ command.pc = "handled" /\ Len(command.calls) = 1
    /\ command.answer = NoCause
    /\ \E c \in Slots : cycles[c].pc = "new"

\* the target a Header names, and whether it is the Header of a success
ErrMark == <<" ", "(", "E", "r", "r", ")">>
HeaderOwner(it) ==
    LET inner == SubSeq(it.Name, 5, Len(it.Name) - 4)
        failed == Len(inner) > 6 /\ SubSeq(inner, Len(inner) - 5, Len(inner)) = ErrMark
    IN  [tName |-> IF failed THEN SubSeq(inner, 1, Len(inner) - 6) ELSE inner,
         ok |-> ~failed]
\* the position of the last Header at or before position i (0: none)
LastHeader(its, i) ==
    IF \E k \in 1..i : its[k].Type = "HDR"
    THEN CHOOSE k \in 1..i : its[k].Type = "HDR" /\ \A l \in (k + 1)..i : its[l].Type # "HDR"
    ELSE 0
\* it is an item the discovery of target tName yields
DiscoveredFor(it, tName) ==
    LET own == TaskItems(tName, GetDeployment(cluster, tName))
    IN  \E k \in 1..Len(own) : SameItem(own[k], it)
Grouped(its) ==
    /\ its # <<>> => its[1].Type = "HDR"
    /\ \A i \in 1..Len(its) :
        /\ (its[i].Type = "HDR" /\ HeaderOwner(its[i]).ok) =>
              /\ i < Len(its)
              /\ its[i + 1].Type = "DEP"
              /\ its[i + 1].Name = HeaderOwner(its[i]).tName
        /\ its[i].Type \in {"POD", "SEC", "CM", "HELM"} =>
              LET h == LastHeader(its, i)
              IN  /\ h > 0
                  /\ HeaderOwner(its[h]).ok
                  /\ DiscoveredFor(its[i], HeaderOwner(its[h]).tName)

\* C15: in every merged list, that of a returned dataMsg and the one on
\* display, each group starts with its Header, the Header of a successful
\* target is immediately followed by the DEP item named after the target, and
\* every POD, SEC, CM and HELM item lies between the Header of the target it
\* was discovered for and the next Header
C15_GroupedByHeader ==
    /\ Grouped(items)
    /\ \A c \in Slots : cycles[c].pc = "done" => Grouped(cycles[c].items)

\* two groups are on display, one of them with release, secret, config and
\* pod items, and a returned list holds the Header of a failed target
C15_Witness ==
    /\ Len(Headers(items)) = 2
    /\ \E c \in Slots :
          /\ cycles[c].pc = "done"
          /\ \E i \in 1..Len(cycles[c].items) :
                cycles[c].items[i].Type = "HDR" /\ ~HeaderOwner(cycles[c].items[i]).ok
    /\ \E i \in 1..Len(items) : items[i].Type = "POD"
    /\ \E i \in 1..Len(items) : items[i].Type = "HELM"

\* the pods of the workload the program was started on, and the POD items on
\* display (PodItems keeps the order of the pods)
PodsOf == GetDeployment(cluster, Deployment).desc.pods
ShownPods == SelectSeq(items, LAMBDA it : it.Type = "POD")
AllReady(p) ==
    Len(p.containers) > 0 /\ \A k \in 1..Len(p.containers) : p.containers[k].ready
HasReason(p) ==
    \E k \in 1..Len(p.containers) :
        p.containers[k].waiting # "" \/ p.containers[k].terminated # ""

\* C16: a pod with no deletion timestamp whose containers are all ready (and
\* there is one at least) is shown as "Running <ready>/<total>", whatever
\* waiting or terminated reasons its containers report
C16_ReadyIsRunning ==
    /\ Len(ShownPods) <= Len(PodsOf)
    /\ \A i \in 1..Len(ShownPods) :
          (~PodsOf[i].deleting /\ AllReady(PodsOf[i])) =>
              ShownPods[i].Status =
                  <<"Running", " ", Itoa(Len(PodsOf[i].containers)), "/",
                    Itoa(Len(PodsOf[i].containers))>>

\* a pod whose containers are all ready and report reasons is on display
C16_Witness ==
    \E i \in 1..Len(ShownPods) :
        /\ ~PodsOf[i].deleting /\ AllReady(PodsOf[i]) /\ HasReason(PodsOf[i])
        /\ Len(PodsOf[i].containers) = 2

\* C17: a pod with a deletion timestamp is shown as
\* "Terminating <ready>/<total>", whatever its readiness, reasons and phase
C17_DeletingIsTerminating ==
    /\ Len(ShownPods) <= Len(PodsOf)
    /\ \A i \in 1..Len(ShownPods) :
          PodsOf[i].deleting =>
              ShownPods[i].Status =
                  <<"Terminating", " ", Itoa(Count(PodsOf[i].containers, TRUE)), "/",
                    Itoa(Len(PodsOf[i].containers))>>

\* a pod that is being deleted while all its containers are ready is on display
C17_Witness ==
    \E i \in 1..Len(ShownPods) : PodsOf[i].deleting /\ AllReady(PodsOf[i])

\* the reason of the first container that has a waiting reason, or a
\* terminated reason other than "Completed" ("" when there is none)
ReasonOf(c) ==
    IF c.waiting # "" THEN c.waiting
    ELSE IF c.terminated # "" /\ c.terminated # "Completed" THEN c.terminated
    ELSE ""
FirstReason(cs) ==
    IF \E k \in 1..Len(cs) : ReasonOf(cs[k]) # ""
    THEN ReasonOf(cs[CHOOSE k \in 1..Len(cs) :
                        ReasonOf(cs[k]) # "" /\ \A l \in 1..(k - 1) : ReasonOf(cs[l]) = ""])
    ELSE ""

\* C18: a pod with no deletion timestamp that is not fully ready is shown
\* with the reason of its first container that has a waiting reason or a
\* terminated reason other than "Completed", and with its phase when no
\* container has one
C18_ReasonElsePhase ==
    /\ Len(ShownPods) <= Len(PodsOf)
    /\ \A i \in 1..Len(ShownPods) :
          (~PodsOf[i].deleting /\ ~AllReady(PodsOf[i])) =>
              ShownPods[i].Status[1] =
                  IF FirstReason(PodsOf[i].containers) # ""
                  THEN FirstReason(PodsOf[i].containers)
                  ELSE PodsOf[i].phase

\* the release name of a descriptor: the first that is not empty of the
\* annotation meta.helm.sh/release-name, the label meta.helm.sh/release-name
\* and the label app.kubernetes.io/instance
ReleaseNameOf(desc) ==
    IF desc.helmAnn # <<>> THEN desc.helmAnn
    ELSE IF desc.helmLabel # <<>> THEN desc.helmLabel
    ELSE desc.instLabel
HelmItems(its) == SelectSeq(its, LAMBDA it : it.Type = "HELM")

\* C19: the dataMsg of a cycle over a found workload holds one HELM item,
\* named by that release name, and the release cache delta of the workload is
\* that name, exactly when the name is not empty; otherwise it holds no HELM
\* item and no delta
C19_ReleaseByPrecedence ==
    \A c \in Slots :
        cycles[c].pc = "done" =>
            LET want == ReleaseNameOf(GetDeployment(cluster, Deployment).desc)
                msg == cycles[c]
            IN  IF want # <<>>
                THEN /\ HelmItems(msg.items) = <<Item("HELM", want, "Release")>>
                     /\ Deployment \in DOMAIN msg.updatedHelm
                     /\ msg.updatedHelm[Deployment] = want
                ELSE /\ HelmItems(msg.items) = <<>>
                     /\ Deployment \notin DOMAIN msg.updatedHelm

\* the sub-list of a target whose descriptor was fetched and names no release
FoundNoRelease(its) ==
    /\ its # <<>> /\ HeaderOwner(its[1]).ok
    /\ HelmItems(its) = <<>>
\* Update applies the dataMsg of slot c, which carries no error
Applies(c) == HandleDataMsg(c) /\ cycles[c].combinedErr = NoErr

\* C20: when the result of a fetch cycle is applied, the release cache holds
\* no name for any target whose descriptor of that cycle names no release,
\* also when an earlier cycle had cached one
C20_NoStaleRelease ==
    [][\A c \in Slots :
          Applies(c) =>
              \A tName \in DOMAIN cycles[c].targetItems :
                  FoundNoRelease(cycles[c].targetItems[tName]) =>
                      \/ tName \notin DOMAIN helmReleases'
                      \/ helmReleases'[tName] = <<>>]_vars

\* the key=value pairs of a document, as a set
PairsOf(doc) == {<<doc[i].k, doc[i].v>> : i \in 1..Len(doc)}
\* the keys of a set of pairs in ascending (byte) order
AscendingKeys(pairs) ==
    CHOOSE keys \in RangeOrders({p[1] : p \in pairs}) :
        \A i, j \in 1..Len(keys) : i < j => StrLess(keys[i], keys[j])
\* the value a set of pairs with no key twice gives to a key
ValueIn(pairs, k) == (CHOOSE p \in pairs : p[1] = k)[2]
\* the text "k1=v1,k2=v2,..." over the keys in ascending order
RECURSIVE JoinedPairs(_, _)
JoinedPairs(keys, pairs) ==
    IF keys = <<>> THEN <<>>
    ELSE (IF Len(keys) > 1 THEN JoinedPairs(SubSeq(keys, 1, Len(keys) - 1), pairs) \o <<",">>
          ELSE <<>>)
         \o keys[Len(keys)] \o <<"=">> \o ValueIn(pairs, keys[Len(keys)])

\* C21: the selector computed from a document is the text of its key=value
\* pairs, keys ascending, joined by commas; every document with the same set
\* of pairs gives the same selector, in whatever order the pairs are listed
\* and ranged over; {b:2, a:1} and {a:1, b:2} both give "a=1,b=2"
C21_SelectorOrderFree ==
    (calc.fn = "newSelector" /\ calc.pc = "done") =>
        /\ calc.out = JoinedPairs(AscendingKeys(PairsOf(calc.doc)), PairsOf(calc.doc))
        /\ \A other \in LabelDocs :
              PairsOf(other) = PairsOf(calc.doc) =>
                  \A keys \in RangeOrders(DOMAIN GjsonMap(other)) :
                      SelectorOf(GjsonMap(other), keys) = calc.out
        /\ PairsOf(calc.doc) = {<<<<"a">>, <<"1">>>>, <<<<"b">>, <<"2">>>>} =>
              calc.out = <<"a", "=", "1", ",", "b", "=", "2">>
        /\ NewSelector([matchLabels |-> GjsonMap(calc.doc)]) = calc.out

\* the selector of the document {b:2, a:1} was computed, the range having
\* yielded b before a
C21_Witness ==
    /\ calc.fn = "newSelector" /\ calc.pc = "done"
    /\ calc.doc = <<[k |-> <<"b">>, v |-> <<"2">>], [k |-> <<"a">>, v |-> <<"1">>]>>
    /\ calc.keys = <<<<"b">>, <<"a">>>>
    /\ calc.out = <<"a", "=", "1", ",", "b", "=", "2">>

\* no two items of the type share a name within one group of the list
UniqueInGroups(its, type) ==
    \A i, j \in 1..Len(its) :
        (i < j /\ its[i].Type = type /\ its[j].Type = type /\ its[i].Name = its[j].Name) =>
            \E k \in (i + 1)..(j - 1) : its[k].Type = "HDR"
NamesOf(its, type) == {its[i].Name : i \in {k \in 1..Len(its) : its[k].Type = type}}
RefsOf == GetDeployment(cluster, Deployment).desc.refs

\* C22: in the list of a returned dataMsg and in the list on display no two
\* SEC items of a group share a name and no two CM items of a group share a
\* name, and the SEC and CM items of the group name every secret and config
\* map the descriptor refers to
C22_RefsDeduplicated ==
    /\ UniqueInGroups(items, "SEC") /\ UniqueInGroups(items, "CM")
    /\ \A c \in Slots :
          cycles[c].pc = "done" =>
              /\ UniqueInGroups(cycles[c].items, "SEC")
              /\ UniqueInGroups(cycles[c].items, "CM")
              /\ NamesOf(cycles[c].items, "SEC")
                     = {RefsOf[i].sec : i \in 1..Len(RefsOf)} \ {<<>>}
              /\ NamesOf(cycles[c].items, "CM")
                     = {RefsOf[i].cm : i \in 1..Len(RefsOf)} \ {<<>>}

\* a descriptor that refers three times to the secret "e" and twice to the
\* config map "m" is on display
C22_Witness ==
    /\ Len(RefsOf) = 3
    /\ \A i \in 1..3 : RefsOf[i].sec = <<"e">>
    /\ RefsOf[1].cm = <<"m">> /\ RefsOf[3].cm = <<"m">>
    /\ NamesOf(items, "SEC") = {<<"e">>}

\* a remote read made for the target fails: the descriptor fetch, or the pod
\* listing that follows a descriptor with a selector
ReadFails(tName) ==
    LET reply == GetDeployment(cluster, tName)
    IN  \/ reply.err
        \/ ~reply.err /\ NewSelector(reply.desc) # <<>> /\ reply.desc.podsErr

\* C23: a cycle returns its dataMsg when every task has stored its target's
\* sub-list, whatever reads failed, and the dataMsg carries an error when a
\* read of one of its targets failed
C23_ReadFailureReported ==
    \A c \in Slots :
        Returned(cycles[c]) =>
            /\ Range(cycles[c].spawned) \subseteq DOMAIN cycles[c].targetItems
            /\ (\E tName \in Range(cycles[c].spawned) : ReadFails(tName)) =>
                   cycles[c].combinedErr # NoErr

\* the positions of the list that hold an item of the same Type and Name
SameKey(its, it) == {i \in 1..Len(its) : its[i].Type = it.Type /\ its[i].Name = it.Name}
\* the index clamped into [0, n - 1] (0 for an empty list)
Clamped(cur, n) == IF n = 0 \/ cur < 0 THEN 0 ELSE IF cur >= n THEN n - 1 ELSE cur

\* C24: when Update applies a dataMsg with no error, the cursor afterwards
\* is on an item with the Type and Name of the item it was on before, if
\* the new list holds one (the first of them); and otherwise, or when
\* nothing was selected, it is the old index clamped into the new list
C24_SelectionContinuity ==
    [][\A c \in Slots :
          Applies(c) =>
              LET selected == Len(items) > 0 /\ cursor < Len(items)
                  found == IF selected THEN SameKey(items', items[cursor + 1]) ELSE {}
              IN  /\ items' = cycles[c].items
                  /\ IF found # {}
                     THEN cursor' + 1 \in found /\ \A i \in found : cursor' + 1 <= i
                     ELSE cursor' = Clamped(cursor, Len(items'))]_vars

\* the cursor is on the secret "e" of a list that holds it at another
\* position than the lists of the other descriptors
C24_Witness ==
    /\ cursor < Len(items)
    /\ items[cursor + 1].Type = "SEC" /\ items[cursor + 1].Name = <<"e">>
    /\ cursor = 4
    /\ SameItems(items, LocalItems(NameB, DescOther))

\* C25: with the formatting flag off processLogContent returns its input
\* unchanged, for every text: the empty text, blank lines, prefixed lines,
\* lines with level keywords and JSON lines
C25_RawIsIdentity ==
    (calc.fn = "processLogContent" /\ calc.pc = "done" /\ ~calc.formatMode) =>
        calc.out = calc.content

\* raw mode has returned a text with a prefixed line and a JSON line, which
\* format mode would have changed
C25_Witness ==
    /\ calc.fn = "processLogContent" /\ calc.pc = "done" /\ ~calc.formatMode
    /\ calc.content = <<PrefixText, NewLine, "{", "}">>
    /\ calc.out = calc.content
    /\ FormatLines(calc.profile, calc.content) # calc.content

\* C26: getPodColor reads the palette at an index within its 10 entries,
\* returns a member of the palette, and returns the same colour when it is
\* called again with the same name, for every name, the empty one included
C26_ColorInPalette ==
    (calc.fn = "getPodColor" /\ calc.calls >= 1) =>
        /\ Len(podColorPalette) = 10
        /\ calc.index \in 0..9
        /\ calc.out \in Range(podColorPalette)
        /\ calc.calls = 2 => calc.again = calc.out

\* the colour of a name of three characters was computed twice, and it is
\* not the first of the palette
C26_Witness ==
    /\ calc.fn = "getPodColor" /\ calc.calls = 2
    /\ Len(calc.podName) = 3
    /\ calc.out # podColorPalette[1]

\* a goroutine is between the return of its lock call and its unlock
InBody(p) == procs[p].pc \in {"body", "unlock"}
\* the method that stores what a read method reads
SetterOf(op) ==
    CASE op = "GetSelector" -> "SetSelector"
      [] op = "GetHelmRelease" -> "SetHelmRelease"
      [] op = "Get" -> "Set"
\* the last write of every goroutine stored the same value for the key that
\* goroutine p has just read
SameStored(p) ==
    /\ procs[p].pc = "unlock"
    /\ procs[p].call.op \in {"GetSelector", "GetHelmRelease", "Get"}
    /\ \A q \in Goroutines :
          /\ procs[q].last.op = SetterOf(procs[p].call.op)
          /\ procs[q].last.d = procs[p].call.d
    /\ \A q \in Goroutines : procs[q].last.v = procs[p].last.v

\* C27: the methods of the Manager and of the MultiContainerCache are atomic
\* under every interleaving: while a goroutine is inside a write (Set*,
\* Merge*, DeleteDeployment, Clear) no other goroutine is inside a write or a
\* read of the same cache, a goroutine is inside a method exactly when it
\* holds the mutex, and when the writers have stored the same value for a key
\* a later read of the key returns that value
C27_Atomic ==
    /\ \A p, q \in Goroutines :
          (p # q /\ InBody(p) /\ procs[p].call.op \in WriteOps) => ~InBody(q)
    /\ \A p \in Goroutines : InBody(p) <=> Held(manager.mu, p)
    /\ \A p \in Goroutines :
          SameStored(p) => (procs[p].ret.ok /\ procs[p].ret.value = procs[p].last.v)

\* a goroutine is between the two statements of DeleteDeployment while the
\* other one waits for the mutex to read the Manager
C27_Witness ==
    \E p, q \in Goroutines :
        /\ p # q
        /\ procs[p].pc = "body" /\ procs[p].call.op = "DeleteDeployment" /\ procs[p].i = 2
        /\ procs[q].pc = "lock" /\ procs[q].call.op = "GetHelmRelease"
        /\ procs[q].call.d = procs[p].call.d
        /\ procs[p].call.d \in DOMAIN MapOf(manager, "helmReleases")

\* what GetSelector or GetHelmRelease would return for d
Found(mgr, field, d) ==
    IF d \in DOMAIN MapOf(mgr, field) THEN [value |-> MapOf(mgr, field)[d], ok |-> TRUE]
    ELSE [value |-> <<>>, ok |-> FALSE]

\* C28: DeleteDeployment(d) leaves the entries of every other deployment as
\* they are, and when it returns neither map holds d: GetSelector(d) and
\* GetHelmRelease(d) report 'not found'
C28_DeleteDeployment ==
    [][\A p \in Goroutines :
          (manager.kind = "Manager" /\ InBody(p) /\ procs[p].call.op = "DeleteDeployment") =>
              /\ \A f \in {"selectors", "helmReleases"}, d \in StoredNames \ {procs[p].call.d} :
                    Found(manager', f, d) = Found(manager, f, d)
              /\ procs'[p].pc = "idle" =>
                    \A f \in {"selectors", "helmReleases"} :
                        ~Found(manager', f, procs[p].call.d).ok]_vars

\* DeleteDeployment("a") is about to return after a merge of helm releases
\* that stored "a": neither map holds "a" and both hold "b"
C28_Witness ==
    \E p, q \in Goroutines :
        /\ manager.kind = "Manager"
        /\ procs[p].pc = "unlock" /\ procs[p].call.op = "DeleteDeployment"
        /\ procs[p].call.d = NameA
        /\ procs[q].last.op = "MergeHelmReleases" /\ NameA \in DOMAIN procs[q].last.u
        /\ \A f \in {"selectors", "helmReleases"} :
              ~Found(manager, f, NameA).ok /\ Found(manager, f, NameB).ok

\* C29: the map GetAllSelectors or GetAllHelmReleases returns is a map of
\* its own that equals the Manager's map when the method returns under the
\* lock; no later step but the caller's own writes changes it, and the
\* caller's writes to it change no map of the Manager
C29_SnapshotCopy ==
    [][\A p \in Goroutines :
          manager.kind = "Manager" =>
              /\ (procs[p].pc = "unlock" /\ procs[p].copied # 0 /\ procs'[p].pc = "idle") =>
                    /\ procs'[p].snap \notin {manager'.fields[f] : f \in DOMAIN manager'.fields}
                    /\ manager'.objs[procs'[p].snap] = MapOf(manager, FieldOf(procs[p].call.op))
              /\ (procs[p].snap # 0 /\ procs'[p].snap = procs[p].snap
                  /\ ~(\E k \in StoredNames, v \in StoredValues : CallerWrite(p, k, v))) =>
                    manager'.objs[procs[p].snap] = manager.objs[procs[p].snap]
              /\ (\E k \in StoredNames, v \in StoredValues : CallerWrite(p, k, v)) =>
                    \A f \in DOMAIN manager.fields : MapOf(manager', f) = MapOf(manager, f)]_vars

\* a goroutine holds the map GetAllSelectors returned when "a" had the
\* selector "1", and "a" has the selector "2" in the Manager by now
C29_Witness ==
    \E p \in Goroutines :
        /\ manager.kind = "Manager"
        /\ procs[p].pc = "idle" /\ procs[p].snap # 0
        /\ procs[p].call.op = "GetAllSelectors"
        /\ manager.objs[procs[p].snap] = (NameA :> <<"1">>)
        /\ MapOf(manager, "selectors") = (NameA :> <<"2">>)

\* C30: detectMultiContainer never holds the cache lock while its call of
\* GetPodContainers is in progress: a goroutine holds the read lock only
\* around the look-up, before the call, and the write lock only around the
\* store, after the call has returned
C30_NoLockDuringRemote ==
    \A p \in Goroutines :
        /\ procs[p].pc \in {"remote", "remoting"} => ~Held(manager.mu, p)
        /\ p \in manager.mu.readers => procs[p].pc \in {"check", "hit", "miss"}
        /\ manager.mu.writer = p => procs[p].pc \in {"store", "wunlock"}

\* the call of one goroutine is in progress while the other goroutine holds
\* the write lock to store what its own call returned
C30_Witness ==
    \E p, q \in Goroutines :
        /\ procs[p].pc = "remoting"
        /\ procs[q].pc = "store" /\ manager.mu.writer = q
        /\ procs[q].call.d = procs[p].call.d

C32_DoubleTap ==
    [][/\ (command.pc = "none" /\ command'.pc = "queued" /\ command'.path = "rr") =>
              (ui.partialKey = "r" /\ ~ui.between)
       /\ ~ui'.between]_vars

\* the group of the item at cur: from the last header at or before cur up to
\* the next header
GroupStart(its, cur) ==
    LET hdrs == {i \in 1..(cur + 1) : its[i].Type = "HDR"}
    IN  IF hdrs = {} THEN 1 ELSE CHOOSE i \in hdrs : \A k \in hdrs : k <= i
GroupEnd(its, cur) ==
    LET hdrs == {i \in (cur + 2)..Len(its) : its[i].Type = "HDR"}
    IN  IF hdrs = {} THEN Len(its) ELSE (CHOOSE i \in hdrs : \A k \in hdrs : i <= k) - 1
GroupWorkload(its, cur) ==
    LET deps == {i \in GroupStart(its, cur)..GroupEnd(its, cur) : its[i].Type = "DEP"}
    IN  IF deps = {} THEN <<>> ELSE its[CHOOSE i \in deps : TRUE].Name

\* C33: for every cursor position getCurrentDeploymentName is the workload
\* of the group that contains the cursor, or empty when that group has no
\* workload item; it is never the workload of another group
C33_WorkloadOfGroup ==
    \A cur \in 0..(Len(items) - 1) :
        getCurrentDeploymentName(items, cur) = GroupWorkload(items, cur)

\* C34: enter on the ':' command line is handled without a runtime failure
\* for every input, the empty and the blank line included: the handler never
\* indexes an empty token list, and a line without a token leads to no
\* command, no change of the Target Set and no remote call
C34_EmptyLineHandled ==
    /\ command.pc # "panic"
    /\ (command.path = "line" /\ Fields(command.typed) = <<>>) =>
          (command.pc \in {"none", "handled"} /\ command.calls = <<>> /\ msgs = {})

\* C35: the item list shown is never replaced by the result of an older
\* fetch cycle after the result of a newer one has been applied: a dataMsg
\* that changes m.items is not that of a cycle started before a cycle whose
\* items were applied already
C35_NewestRemains ==
    [][\A c \in Slots :
          (cycles[c].pc = "done" /\ cycles'[c].pc # "done" /\ cycles[c].combinedErr = NoErr
           /\ items' # items) => c \notin ui.overtaken]_vars

\* C36: the details pane shows content fetched for the selected item and the
\* active tab: the detailsMsg of a detail command for an item or tab that is
\* not the current selection when it is handled does not change the pane
C36_DetailsOfSelection ==
    [][\A req \in ui.details \ ui'.details :
          \/ ui'.shown = ui.shown
          \/ /\ Len(items) > 0 /\ cursor < Len(items)
             /\ req.Type = items[cursor + 1].Type /\ req.Name = items[cursor + 1].Name
             /\ req.tab = ui.activeTab]_vars

\* C37: exactly one tick timer is outstanding in every reachable state: a
\* tickMsg schedules one next tick and no command adds a tick chain
C37_OneTickChain == ui.ticks = 1

\* C38: whenever the item list is not empty the cursor is an index of it
C38_CursorInBounds == Len(items) > 0 => (0 <= cursor /\ cursor < Len(items))

\* a refresh after the removal of a target has shrunk the list the cursor
\* was at the end of: the cursor is on the last item of the shorter list
C38_Witness ==
    /\ removed # {} /\ msgs = {}
    /\ targets.len = 1
    /\ Len(items) > 0 /\ cursor = Len(items) - 1
    /\ \A i \in 1..Len(items) : items[i].Type = "DEP" => items[i].Name \notin removed
    /\ \A c \in Slots : cycles[c].pc = "idle"

\* C39: with a non-empty list the selected row is inside the window of the
\* list pane
C39_CursorInWindow ==
    Len(items) > 0 => (ui.listOffset <= cursor /\ cursor < ui.listOffset + ui.listHeight)

=============================================================================
